---- MODULE Spec2Model ----
(***************************************************************************)
(* Book field validator/normaliser of gerry-sabar/byfood                   *)
(* (backend/internal/app: ValidationError, ISBN checks, hasMax2Decimals,   *)
(* validateAndNormalizeCreate, validateAndNormalizeUpdate).                *)
(*                                                                         *)
(* A Go string is a sequence of characters, each with the number of bytes  *)
(* its UTF-8 encoding takes, so that len(s) (bytes) and the number of      *)
(* characters are different things.  A float64 is a sign, a 53-bit         *)
(* mantissa and a binary exponent; the mantissa is held as a little-endian *)
(* sequence of 15-bit limbs so that every product fits the integers of the *)
(* checker, and every float operation rounds to nearest-even as IEEE 754.  *)
(***************************************************************************)
EXTENDS Integers, Sequences, FiniteSets, TLC

VARIABLES
    Fields,     \* ValidationError.Fields of the accumulator under test
    addLog,     \* history: the add(field, msg) calls made so far, in order
    call,       \* the last call of a function under test: argument and result
    prev,       \* the call before it (two calls side by side)
    books,      \* the books table: the stored row of each id it holds
    repoLog,    \* history: the calls made to the repository, in order
    reqs,       \* the service requests in flight: position and locals
    now         \* the clock time.Now() reads

\* the variables of the book service and its repository
world == <<books, repoLog, reqs, now>>

vars == <<Fields, addLog, call, prev, books, repoLog, reqs, now>>

\* no service is running: the validators are called on their own
ServiceAtRest ==
    /\ books = <<>>
    /\ repoLog = <<>>
    /\ reqs = <<>>
    /\ now = 0

Idle == [fn |-> "none"]

(***************************************************************************)
(* Characters and strings.                                                 *)
(***************************************************************************)
TAB == "\t"
NBSP == "U+00A0"        \* no-break space: white space, two bytes
EACUTE == "U+00E9"      \* e with acute accent: a letter, two bytes
EACUTEUP == "U+00C9"    \* its upper case
SHARPS == "U+00DF"      \* sharp s: a lower-case letter with no upper case, two bytes

Digits == {"0", "1", "2", "3", "4", "5", "6", "7", "8", "9"}

LowerLetters ==
    <<"a", "b", "c", "d", "e", "f", "g", "h", "i", "j", "k", "l", "m", "n",
      "o", "p", "q", "r", "s", "t", "u", "v", "w", "x", "y", "z">>

UpperLetters ==
    <<"A", "B", "C", "D", "E", "F", "G", "H", "I", "J", "K", "L", "M", "N",
      "O", "P", "Q", "R", "S", "T", "U", "V", "W", "X", "Y", "Z">>

IsLower(c) == \E i \in 1..26 : LowerLetters[i] = c
IsUpper(c) == \E i \in 1..26 : UpperLetters[i] = c

\* the position of a letter in its alphabet
LetterIndex(letters, c) == CHOOSE i \in 1..26 : letters[i] = c

\* The byte a one-byte character is, and the first byte of a wider one.
Code(c) ==
    CASE c = "0" -> 48 [] c = "1" -> 49 [] c = "2" -> 50 [] c = "3" -> 51
      [] c = "4" -> 52 [] c = "5" -> 53 [] c = "6" -> 54 [] c = "7" -> 55
      [] c = "8" -> 56 [] c = "9" -> 57
      [] c = " " -> 32 [] c = TAB -> 9 [] c = "-" -> 45
      [] c = "X" -> 88 [] c = "x" -> 120 [] c = "a" -> 97 [] c = "A" -> 65
      [] c = NBSP -> 194 [] c = EACUTE -> 195 [] c = EACUTEUP -> 195
      [] c = SHARPS -> 195
      [] c = "#" -> 35 [] c = "%" -> 37 [] c = "&" -> 38 [] c = "+" -> 43
      [] c = "." -> 46 [] c = "/" -> 47 [] c = ":" -> 58 [] c = ";" -> 59
      [] c = "=" -> 61 [] c = "?" -> 63 [] c = "_" -> 95 [] c = "~" -> 126
      [] IsLower(c) -> 96 + LetterIndex(LowerLetters, c)
      [] IsUpper(c) -> 64 + LetterIndex(UpperLetters, c)

\* Bytes of the UTF-8 encoding of a character.
Width(c) == IF c \in {NBSP, EACUTE, EACUTEUP, SHARPS} THEN 2 ELSE 1

\* len(s): the number of bytes.
GoLen(s) ==
    Len(s) + Cardinality({i \in 1..Len(s) : Width(s[i]) = 2})

\* unicode.IsSpace
IsSpace(c) == c \in {" ", TAB, NBSP}

\* strings.TrimLeftFunc(s, unicode.IsSpace)
TrimLeft(s) ==
    IF \A i \in 1..Len(s) : IsSpace(s[i]) THEN <<>>
    ELSE LET k == CHOOSE i \in 1..Len(s) :
                      ~IsSpace(s[i]) /\ \A j \in 1..(i - 1) : IsSpace(s[j])
         IN  SubSeq(s, k, Len(s))

\* strings.TrimRightFunc(s, unicode.IsSpace)
TrimRight(s) ==
    IF \A i \in 1..Len(s) : IsSpace(s[i]) THEN <<>>
    ELSE LET k == CHOOSE i \in 1..Len(s) :
                      ~IsSpace(s[i]) /\ \A j \in (i + 1)..Len(s) : IsSpace(s[j])
         IN  SubSeq(s, 1, k)

\* strings.TrimSpace
TrimSpace(s) == TrimRight(TrimLeft(s))

\* strings.ReplaceAll(s, old, "") for a one-character old
RemoveAll(s, old) == SelectSeq(s, LAMBDA c : c # old)

UpperChar(c) ==
    CASE c = "x" -> "X" [] c = "a" -> "A" [] c = EACUTE -> EACUTEUP
      [] IsLower(c) -> UpperLetters[LetterIndex(LowerLetters, c)]
      [] OTHER -> c

LowerChar(c) ==
    CASE c = EACUTEUP -> EACUTE
      [] IsUpper(c) -> LowerLetters[LetterIndex(UpperLetters, c)]
      [] OTHER -> c

\* strings.ToUpper
ToUpper(s) == [i \in 1..Len(s) |-> UpperChar(s[i])]

\* strings.ToLower
ToLower(s) == [i \in 1..Len(s) |-> LowerChar(s[i])]

\* s with the character at position p replaced by c
Replace(s, p, c) == [i \in 1..Len(s) |-> IF i = p THEN c ELSE s[i]]

\* s with c inserted before position p (p = Len(s) + 1 appends)
Insert(s, p, c) == SubSeq(s, 1, p - 1) \o <<c>> \o SubSeq(s, p, Len(s))

\* n copies of c
Rep(c, n) == [i \in 1..n |-> c]

(***************************************************************************)
(* ValidationError: the error accumulator.                                 *)
(***************************************************************************)
FieldNames == {"title", "author", "isbn", "publication_year", "price"}

\* &ValidationError{}: Fields is the nil map
NewValidationError == [isNil |-> TRUE, m |-> <<>>]

\* Seeded fault: a later message overwrites the recorded one.
addOverwrites(v, field, msg) ==
    [isNil |-> FALSE,
     m |-> [f \in DOMAIN v.m \cup {field} |->
                IF f = field THEN msg ELSE v.m[f]]]

\* (v *ValidationError) add
add(v, field, msg) ==
    LET w == IF v.isNil THEN [isNil |-> FALSE, m |-> <<>>] ELSE v
    IN  IF field \notin DOMAIN w.m
        THEN [w EXCEPT !.m = [f \in DOMAIN w.m \cup {field} |->
                                 IF f = field THEN msg ELSE w.m[f]]]
        ELSE w

\* (v *ValidationError) ok
ok(v) == Cardinality(DOMAIN v.m) = 0

(***************************************************************************)
(* ISBN.                                                                   *)
(***************************************************************************)
\* Seeded fault: the hyphens are not removed.
normalizeISBNKeepsHyphens(s) == ToUpper(RemoveAll(s, " "))

\* normalizeISBN
normalizeISBN(s) == ToUpper(RemoveAll(RemoveAll(s, " "), "-"))

\* reIsbn10 = ^\d{9}[\dX]$
reIsbn10(s) ==
    /\ Len(s) = 10
    /\ \A i \in 1..9 : s[i] \in Digits
    /\ s[10] \in Digits \cup {"X"}

\* reIsbn13 = ^\d{13}$
reIsbn13(s) == Len(s) = 13 /\ \A i \in 1..13 : s[i] \in Digits

\* int(b - '0') on a byte
DigitOf(c) == (Code(c) - 48) % 256

RECURSIVE Sum10(_, _)

\* Seeded fault: the loop stops one digit early (i < 8).
Sum10StopsEarly(s, i) ==
    IF i >= 8 THEN 0 ELSE (10 - i) * DigitOf(s[i + 1]) + Sum10(s, i + 1)

\* the loop of isValidISBN10: i runs over the Go indexes 0..8
Sum10(s, i) ==
    IF i >= 9 THEN 0 ELSE (10 - i) * DigitOf(s[i + 1]) + Sum10(s, i + 1)

isValidISBN10(s) ==
    IF ~reIsbn10(s) THEN FALSE
    ELSE LET sum == Sum10(s, 0)
             last == s[10]
         IN  (sum + (IF last = "X" THEN 10 ELSE DigitOf(last))) % 11 = 0

\* the loop of isValidISBN13: i runs over the Go indexes 0..11
RECURSIVE Sum13(_, _)
Sum13(s, i) ==
    IF i >= 12 THEN 0
    ELSE (IF i % 2 = 0 THEN DigitOf(s[i + 1]) ELSE DigitOf(s[i + 1]) * 3)
         + Sum13(s, i + 1)

\* Seeded fault: the check digit is compared without the outer mod 10.
isValidISBN13NoOuterMod(s) ==
    IF ~reIsbn13(s) THEN FALSE
    ELSE (10 - (Sum13(s, 0) % 10)) = DigitOf(s[13])

isValidISBN13(s) ==
    IF ~reIsbn13(s) THEN FALSE
    ELSE LET check == (10 - (Sum13(s, 0) % 10)) % 10
         IN  check = DigitOf(s[13])

isValidISBN(s) ==
    LET n == normalizeISBN(s)
    IN  IF GoLen(n) = 10 THEN isValidISBN10(n)
        ELSE IF GoLen(n) = 13 THEN isValidISBN13(n)
        ELSE FALSE

(***************************************************************************)
(* Natural numbers of any size: little-endian sequences of 15-bit limbs,   *)
(* without leading zero limbs (zero is the empty sequence).                *)
(***************************************************************************)
Limb == 32768

RECURSIVE BNorm(_)
BNorm(n) ==
    IF n # <<>> /\ n[Len(n)] = 0 THEN BNorm(SubSeq(n, 1, Len(n) - 1)) ELSE n

RECURSIVE BFromInt(_)
BFromInt(k) == IF k = 0 THEN <<>> ELSE <<k % Limb>> \o BFromInt(k \div Limb)

\* n * k + c, for 0 <= k < Limb
RECURSIVE BMulAdd(_, _, _)
BMulAdd(n, k, c) ==
    IF n = <<>> THEN BFromInt(c)
    ELSE LET t == Head(n) * k + c
         IN  <<t % Limb>> \o BMulAdd(Tail(n), k, t \div Limb)

BMulS(n, k) == BNorm(BMulAdd(n, k, 0))

\* quotient and remainder of n by d, for 0 < d < 65536
RECURSIVE BDivRaw(_, _)
BDivRaw(n, d) ==
    IF n = <<>> THEN [q |-> <<>>, r |-> 0]
    ELSE LET hi == BDivRaw(Tail(n), d)
             t == hi.r * Limb + Head(n)
         IN  [q |-> <<t \div d>> \o hi.q, r |-> t % d]

BDivS(n, d) == LET x == BDivRaw(n, d) IN [q |-> BNorm(x.q), r |-> x.r]

RECURSIVE BAddRaw(_, _, _)
BAddRaw(a, b, c) ==
    IF a = <<>> /\ b = <<>> THEN BFromInt(c)
    ELSE LET x == IF a = <<>> THEN 0 ELSE Head(a)
             y == IF b = <<>> THEN 0 ELSE Head(b)
             t == x + y + c
         IN  <<t % Limb>> \o BAddRaw(IF a = <<>> THEN a ELSE Tail(a),
                                     IF b = <<>> THEN b ELSE Tail(b),
                                     t \div Limb)

BAdd(a, b) == BNorm(BAddRaw(a, b, 0))

\* a - b - c for a >= b + c
RECURSIVE BSubRaw(_, _, _)
BSubRaw(a, b, c) ==
    IF a = <<>> THEN <<>>
    ELSE LET y == IF b = <<>> THEN 0 ELSE Head(b)
             t == Head(a) - y - c
         IN  <<t % Limb>> \o BSubRaw(Tail(a),
                                     IF b = <<>> THEN b ELSE Tail(b),
                                     IF t < 0 THEN 1 ELSE 0)

BSub(a, b) == BNorm(BSubRaw(a, b, 0))

\* -1, 0, 1 as a < b, a = b, a > b
RECURSIVE BCmp(_, _)
BCmp(a, b) ==
    IF Len(a) # Len(b) THEN (IF Len(a) < Len(b) THEN -1 ELSE 1)
    ELSE IF a = <<>> THEN 0
    ELSE IF a[Len(a)] # b[Len(b)]
         THEN (IF a[Len(a)] < b[Len(b)] THEN -1 ELSE 1)
    ELSE BCmp(SubSeq(a, 1, Len(a) - 1), SubSeq(b, 1, Len(b) - 1))

RECURSIVE Pow2(_)
Pow2(k) == IF k = 0 THEN 1 ELSE 2 * Pow2(k - 1)

RECURSIVE IntBitLen(_)
IntBitLen(k) == IF k = 0 THEN 0 ELSE 1 + IntBitLen(k \div 2)

BBitLen(n) ==
    IF n = <<>> THEN 0 ELSE 15 * (Len(n) - 1) + IntBitLen(n[Len(n)])

BOdd(n) == n # <<>> /\ n[1] % 2 = 1

\* n * 2^s
BShl(n, s) ==
    IF n = <<>> THEN <<>>
    ELSE Rep(0, s \div 15) \o BMulS(n, Pow2(s % 15))

\* floor(n / 2^s), and whether a remainder was dropped
BShrLimbs(x, low) ==
    [q |-> x.q, sticky |-> x.r # 0 \/ \E i \in 1..Len(low) : low[i] # 0]

BShr(n, s) ==
    BShrLimbs(BDivS(SubSeq(n, s \div 15 + 1, Len(n)), Pow2(s % 15)),
              SubSeq(n, 1, IF s \div 15 < Len(n) THEN s \div 15 ELSE Len(n)))

\* the number a string of decimal digits writes
RECURSIVE BFromDigits(_, _)
BFromDigits(ds, acc) ==
    IF ds = <<>> THEN BNorm(acc)
    ELSE BFromDigits(Tail(ds), BMulAdd(acc, 10, Code(Head(ds)) - 48))

\* floor(n / 10^k), and whether a remainder was dropped
RECURSIVE BDivPow10(_, _)
BDivPow10(n, k) ==
    IF k = 0 THEN [q |-> n, sticky |-> FALSE]
    ELSE LET step == IF k >= 4 THEN 4 ELSE k
             d == IF step = 4 THEN 10000
                  ELSE IF step = 3 THEN 1000
                  ELSE IF step = 2 THEN 100 ELSE 10
             x == BDivS(n, d)
             rest == BDivPow10(x.q, k - step)
         IN  [q |-> rest.q, sticky |-> rest.sticky \/ x.r # 0]

(***************************************************************************)
(* float64: NaN, the infinities, and the finite values m * 2^e with m = 0  *)
(* or 2^52 <= m < 2^53.  Every operation rounds its exact result to the    *)
(* nearest such value, ties to even.                                       *)
(***************************************************************************)
NaN == [kind |-> "nan", neg |-> FALSE, m |-> <<>>, e |-> 0]
Inf(neg) == [kind |-> "inf", neg |-> neg, m |-> <<>>, e |-> 0]
Zero(neg) == [kind |-> "fin", neg |-> neg, m |-> <<>>, e |-> 0]

MantBits == 53
MaxExp == 1023

\* m * 2^e for a 53-bit m, or the infinity when e is out of range
Pack(neg, m, e) ==
    IF e + MantBits - 1 > MaxExp THEN Inf(neg)
    ELSE [kind |-> "fin", neg |-> neg, m |-> m, e |-> e]

\* r * 2^e where r has 53 bits, or 54 after the carry of a rounding
Renorm(neg, r, e) ==
    IF BBitLen(r) > MantBits THEN Pack(neg, BDivS(r, 2).q, e + 1)
    ELSE Pack(neg, r, e)

\* x holds the leading 54 bits of the value and whether lower bits were
\* dropped, q the leading 53: round to nearest, ties to even
RoundHalfEven(neg, x, q, e, sticky) ==
    Renorm(neg,
           IF BOdd(x.q) /\ (sticky \/ x.sticky \/ BOdd(q))
           THEN BAdd(q, <<1>>) ELSE q,
           e)

RoundBits(neg, x, e, sticky) ==
    RoundHalfEven(neg, x, BDivS(x.q, 2).q, e, sticky)

\* n has len bits
RoundLen(neg, n, e, sticky, len) ==
    IF len <= MantBits
    THEN [kind |-> "fin", neg |-> neg,
          m |-> BShl(n, MantBits - len), e |-> e - (MantBits - len)]
    ELSE RoundBits(neg, BShr(n, len - MantBits - 1), e + len - MantBits,
                   sticky)

\* The float64 nearest to (-1)^neg * (n + f) * 2^e, where 0 <= f < 1 and
\* sticky says f > 0 (n has more than 53 bits whenever sticky holds).
RoundToFloat(neg, n, e, sticky) ==
    IF n = <<>> THEN Zero(neg) ELSE RoundLen(neg, n, e, sticky, BBitLen(n))

RoundSticky(neg, x, e) == RoundToFloat(neg, x.q, e, x.sticky)

\* The float64 a decimal literal denotes: digits d1 d2 ... with the last k of
\* them after the decimal point (strconv.ParseFloat, the compiler).
ParseFloat(neg, digits, k) ==
    RoundSticky(neg,
                BDivPow10(BShl(BFromDigits(digits, <<>>), 64 + 4 * k), k),
                -(64 + 4 * k))

\* (-1)^an * A + (-1)^bn * B, times 2^e
FAddAligned(an, A, bn, B, e) ==
    RoundToFloat(IF an = bn \/ BCmp(A, B) >= 0 THEN an ELSE bn,
                 IF an = bn THEN BAdd(A, B)
                 ELSE IF BCmp(A, B) >= 0 THEN BSub(A, B) ELSE BSub(B, A),
                 e, FALSE)

\* the sum of two finite non-zero values, exact before the final rounding
FAddSigned(an, am, ae, bn, bm, be) ==
    FAddAligned(an, BShl(am, ae - (IF ae < be THEN ae ELSE be)),
                bn, BShl(bm, be - (IF ae < be THEN ae ELSE be)),
                IF ae < be THEN ae ELSE be)

\* an exact zero difference is +0
PlusZero(r) == IF r.kind = "fin" /\ r.m = <<>> THEN Zero(FALSE) ELSE r

\* a - b
FSub(a, b) ==
    IF a.kind = "nan" \/ b.kind = "nan" THEN NaN
    ELSE IF a.kind = "inf" /\ b.kind = "inf"
         THEN (IF a.neg = b.neg THEN NaN ELSE a)
    ELSE IF a.kind = "inf" THEN a
    ELSE IF b.kind = "inf" THEN Inf(~b.neg)
    ELSE IF b.m = <<>> THEN a
    ELSE IF a.m = <<>> THEN [b EXCEPT !.neg = ~b.neg]
    ELSE PlusZero(FAddSigned(a.neg, a.m, a.e, ~b.neg, b.m, b.e))

\* a * k for a small positive integer k
FMulInt(a, k) ==
    IF a.kind # "fin" THEN a
    ELSE RoundToFloat(a.neg, BMulS(a.m, k), a.e, FALSE)

\* math.Abs
FAbs(a) == [a EXCEPT !.neg = FALSE]

\* math.IsNaN, math.IsInf(n, 0)
IsNaN(a) == a.kind = "nan"
IsInf(a) == a.kind = "inf"

\* q holds twice the magnitude, floored: the halves go away from zero
RoundHalfAway(neg, q) ==
    RoundToFloat(neg,
                 IF BOdd(q) THEN BAdd(BDivS(q, 2).q, <<1>>) ELSE BDivS(q, 2).q,
                 0, FALSE)

\* math.Round: the nearest integer, halves away from zero
FRound(a) ==
    IF a.kind # "fin" \/ a.m = <<>> \/ a.e >= 0 THEN a
    ELSE IF -a.e > MantBits THEN Zero(a.neg)
    ELSE RoundHalfAway(a.neg, BShr(a.m, -a.e - 1).q)

\* the order of two finite non-zero values of the same sign
BCmpAligned(a, b, e) == BCmp(BShl(a.m, a.e - e), BShl(b.m, b.e - e))

\* a < b
FLess(a, b) ==
    IF a.kind = "nan" \/ b.kind = "nan" THEN FALSE
    ELSE IF a.kind = "inf" THEN a.neg /\ ~(b.kind = "inf" /\ b.neg)
    ELSE IF b.kind = "inf" THEN ~b.neg
    ELSE IF a.m = <<>> /\ b.m = <<>> THEN FALSE
    ELSE IF a.m = <<>> THEN ~b.neg
    ELSE IF b.m = <<>> THEN a.neg
    ELSE IF a.neg # b.neg THEN a.neg
    ELSE IF a.neg THEN BCmpAligned(a, b, IF a.e < b.e THEN a.e ELSE b.e) > 0
    ELSE BCmpAligned(a, b, IF a.e < b.e THEN a.e ELSE b.e) < 0

\* the constant 1e-9 of hasMax2Decimals
Epsilon == ParseFloat(FALSE, <<"1">>, 9)

\* math.Abs(scaled-math.Round(scaled)) < 1e-9
nearRounded(scaled) == FLess(FAbs(FSub(scaled, FRound(scaled))), Epsilon)

hasMax2Decimals(n) ==
    IF IsNaN(n) \/ IsInf(n) THEN FALSE ELSE nearRounded(FMulInt(n, 100))

(***************************************************************************)
(* validateAndNormalizeCreate.  The input is the CreateBookInput struct,   *)
(* passed by value; each field's block is one operator on the pair of the  *)
(* working copy and the error accumulator.                                 *)
(* The less-or-equal and greater-or-equal signs of the messages are        *)
(* written <= and >=.                                                      *)
(***************************************************************************)
MaxTitleLen == 120
MaxAuthorLen == 80
minYear == 1000
maxYear == 9999

\* the constant 1_000_000 of the price checks
MaxPrice == ParseFloat(FALSE, <<"1", "0", "0", "0", "0", "0", "0">>, 0)

\* Seeded fault: || written for &&.
isValidFourDigitYearIntEitherBound(y) == y >= minYear \/ y <= maxYear

isValidFourDigitYearInt(y) == y >= minYear /\ y <= maxYear

\* a returned error: nil, or the *ValidationError with its Fields
NoError == [isNil |-> TRUE, fields |-> <<>>]
ErrorOf(errs) == [isNil |-> FALSE, fields |-> errs.m]

createTitle(st) ==
    LET t == TrimSpace(st.in.Title)
    IN  [in |-> [st.in EXCEPT !.Title = t],
         errs |-> IF t = <<>> THEN add(st.errs, "title", "Title is required")
                  ELSE IF GoLen(t) > MaxTitleLen
                  THEN add(st.errs, "title", "Title must be <= 120 characters")
                  ELSE st.errs]

createAuthor(st) ==
    LET a == TrimSpace(st.in.Author)
    IN  [in |-> [st.in EXCEPT !.Author = a],
         errs |-> IF a = <<>> THEN add(st.errs, "author", "Author is required")
                  ELSE IF GoLen(a) > MaxAuthorLen
                  THEN add(st.errs, "author", "Author must be <= 80 characters")
                  ELSE st.errs]

createISBN(st) ==
    LET s == TrimSpace(st.in.ISBN)
    IN  IF s = <<>>
        THEN [in |-> [st.in EXCEPT !.ISBN = s],
              errs |-> add(st.errs, "isbn", "ISBN is required")]
        ELSE IF ~isValidISBN(s)
        THEN [in |-> [st.in EXCEPT !.ISBN = s],
              errs |-> add(st.errs, "isbn",
                           "Invalid ISBN (must be ISBN-10 or ISBN-13)")]
        ELSE [in |-> [st.in EXCEPT !.ISBN = normalizeISBN(s)],
              errs |-> st.errs]

createYear(st) ==
    [in |-> st.in,
     errs |-> IF st.in.PublicationYear = 0
              THEN add(st.errs, "publication_year",
                       "Publication year is required")
              ELSE IF ~isValidFourDigitYearInt(st.in.PublicationYear)
              THEN add(st.errs, "publication_year",
                       "Publication year must be a 4-digit number")
              ELSE st.errs]

\* Seeded fault: the price is checked only while no other field has failed.
createPriceUnlessFailed(st) ==
    [in |-> st.in,
     errs |-> IF ~ok(st.errs) THEN st.errs
              ELSE IF FLess(st.in.Price, Zero(FALSE))
              THEN add(st.errs, "price", "Price must be >= 0")
              ELSE IF FLess(MaxPrice, st.in.Price)
              THEN add(st.errs, "price", "Price is too large")
              ELSE IF ~hasMax2Decimals(st.in.Price)
              THEN add(st.errs, "price", "Max 2 decimal places")
              ELSE st.errs]

createPrice(st) ==
    [in |-> st.in,
     errs |-> IF FLess(st.in.Price, Zero(FALSE))
              THEN add(st.errs, "price", "Price must be >= 0")
              ELSE IF FLess(MaxPrice, st.in.Price)
              THEN add(st.errs, "price", "Price is too large")
              ELSE IF ~hasMax2Decimals(st.in.Price)
              THEN add(st.errs, "price", "Max 2 decimal places")
              ELSE st.errs]

\* return in, errs when a rule failed, else return in, nil
createReturn(st) ==
    [out |-> st.in, err |-> IF ~ok(st.errs) THEN ErrorOf(st.errs) ELSE NoError]

validateAndNormalizeCreate(in) ==
    createReturn(createPrice(createYear(createISBN(createAuthor(createTitle(
        [in |-> in, errs |-> NewValidationError]))))))

(***************************************************************************)
(* validateAndNormalizeUpdate.  The input is the UpdateBookInput struct,   *)
(* passed by value, whose fields are pointers: NIL or the address of a     *)
(* cell of the caller's memory mem.  A write through a pointer changes     *)
(* mem, and the returned struct holds the same pointers.                   *)
(***************************************************************************)
NIL == "nil"

updateTitle(st) ==
    IF st.in.Title = NIL THEN st
    ELSE LET t == TrimSpace(st.mem[st.in.Title])
         IN  IF t = <<>>
             THEN [st EXCEPT !.errs = add(@, "title", "Title is required")]
             ELSE IF GoLen(t) > MaxTitleLen
             THEN [st EXCEPT !.errs =
                       add(@, "title", "Title must be <= 120 characters")]
             ELSE [st EXCEPT !.mem[st.in.Title] = t]

updateAuthor(st) ==
    IF st.in.Author = NIL THEN st
    ELSE LET a == TrimSpace(st.mem[st.in.Author])
         IN  IF a = <<>>
             THEN [st EXCEPT !.errs = add(@, "author", "Author is required")]
             ELSE IF GoLen(a) > MaxAuthorLen
             THEN [st EXCEPT !.errs =
                       add(@, "author", "Author must be <= 80 characters")]
             ELSE [st EXCEPT !.mem[st.in.Author] = a]

\* Seeded fault: the normalized ISBN is computed and not stored.
updateISBNKeepsInput(st) ==
    IF st.in.ISBN = NIL THEN st
    ELSE LET s == TrimSpace(st.mem[st.in.ISBN])
         IN  IF s = <<>>
             THEN [st EXCEPT !.errs = add(@, "isbn", "ISBN is required")]
             ELSE IF ~isValidISBN(s)
             THEN [st EXCEPT !.errs =
                       add(@, "isbn",
                           "Invalid ISBN (must be ISBN-10 or ISBN-13)")]
             ELSE st

updateISBN(st) ==
    IF st.in.ISBN = NIL THEN st
    ELSE LET s == TrimSpace(st.mem[st.in.ISBN])
         IN  IF s = <<>>
             THEN [st EXCEPT !.errs = add(@, "isbn", "ISBN is required")]
             ELSE IF ~isValidISBN(s)
             THEN [st EXCEPT !.errs =
                       add(@, "isbn",
                           "Invalid ISBN (must be ISBN-10 or ISBN-13)")]
             ELSE [st EXCEPT !.mem[st.in.ISBN] = normalizeISBN(s)]

\* Seeded fault: the year is required, as in create mode, when it is absent.
updateYearRequired(st) ==
    IF st.in.PublicationYear = NIL
    THEN [st EXCEPT !.errs = add(@, "publication_year",
                                 "Publication year is required")]
    ELSE IF ~isValidFourDigitYearInt(st.mem[st.in.PublicationYear])
    THEN [st EXCEPT !.errs = add(@, "publication_year",
                                 "Publication year must be a 4-digit number")]
    ELSE st

updateYear(st) ==
    IF st.in.PublicationYear = NIL THEN st
    ELSE LET y == st.mem[st.in.PublicationYear]
         IN  IF ~isValidFourDigitYearInt(y)
             THEN [st EXCEPT !.errs =
                       add(@, "publication_year",
                           "Publication year must be a 4-digit number")]
             ELSE st

updatePrice(st) ==
    IF st.in.Price = NIL THEN st
    ELSE LET p == st.mem[st.in.Price]
         IN  IF FLess(p, Zero(FALSE))
             THEN [st EXCEPT !.errs = add(@, "price", "Price must be >= 0")]
             ELSE IF FLess(MaxPrice, p)
             THEN [st EXCEPT !.errs = add(@, "price", "Price is too large")]
             ELSE IF ~hasMax2Decimals(p)
             THEN [st EXCEPT !.errs = add(@, "price", "Max 2 decimal places")]
             ELSE st

\* return in, errs when a rule failed, else return in, nil
updateReturn(st) ==
    [out |-> st.in, mem |-> st.mem,
     err |-> IF ~ok(st.errs) THEN ErrorOf(st.errs) ELSE NoError]

validateAndNormalizeUpdate(in, mem) ==
    updateReturn(updatePrice(updateYear(updateISBN(updateAuthor(updateTitle(
        [in |-> in, mem |-> mem, errs |-> NewValidationError]))))))

(***************************************************************************)
(* The accumulator under test: a fresh ValidationError and add calls.      *)
(***************************************************************************)
MaxAdds == 4

AddMsgs == {"bad", "should-be-ignored"}

AccInit ==
    /\ Fields = NewValidationError
    /\ addLog = <<>>
    /\ call = Idle
    /\ prev = Idle
    /\ ServiceAtRest

AccAdd(field, msg) ==
    /\ Len(addLog) < MaxAdds
    /\ Fields' = add(Fields, field, msg)
    /\ addLog' = Append(addLog, <<field, msg>>)
    /\ UNCHANGED <<call, prev>>
    /\ UNCHANGED world

AccNext == \E field \in FieldNames, msg \in AddMsgs : AccAdd(field, msg)

SpecAcc == AccInit /\ [][AccNext]_vars

(***************************************************************************)
(* isValidISBN under test.  The inputs are the ISBNs of the tests, each    *)
(* with one digit and the check character rewritten, with one character    *)
(* replaced or inserted, and padded; a valid input is then rechecked with  *)
(* one of its digits replaced by another digit.                            *)
(***************************************************************************)
SeedISBNs == {
    <<"0", "3", "0", "6", "4", "0", "6", "1", "5", "2">>,
    <<"9", "7", "8", "0", "3", "0", "6", "4", "0", "6", "1", "5", "7">>,
    <<"9", "7", "8", "0", "1", "3", "2", "3", "5", "0", "8", "8", "4">>,
    <<"9", "7", "8", "0", "3", "2", "1", "1", "2", "5", "2", "1", "7">>,
    <<"0", "8", "0", "4", "4", "2", "9", "5", "7", "X">>,
    <<"0", "3", "2", "1", "1", "4", "6", "5", "3", "0">>
}

CheckChars == Digits \cup {"X"}
OddChars == {"X", "x", "a", "-", " ", TAB, EACUTE}

IsbnInputs ==
    UNION {
        {Replace(Replace(s, p, d), Len(s), c) :
            p \in 1..(Len(s) - 1), d \in Digits, c \in CheckChars}
        \cup {Replace(s, p, c) : p \in 1..Len(s), c \in OddChars}
        \cup {Insert(s, p, c) : p \in 1..(Len(s) + 1), c \in OddChars \cup {"0"}}
        \cup {SubSeq(s, 1, Len(s) - 1), <<" ">> \o s \o <<" ">>, <<>>}
        : s \in SeedISBNs }

IsbnCheck(s) ==
    /\ call = Idle
    /\ call' = [fn |-> "isValidISBN", arg |-> s, res |-> isValidISBN(s),
                from |-> <<>>, edit |-> "none"]
    /\ UNCHANGED <<Fields, addLog, prev>>
    /\ UNCHANGED world

IsbnMutateDigit(p, d) ==
    /\ call.fn = "isValidISBN"
    /\ call.edit = "none"
    /\ call.res
    /\ p \in 1..Len(call.arg)
    /\ call.arg[p] \in Digits
    /\ d # call.arg[p]
    /\ LET t == Replace(call.arg, p, d)
       IN  call' = [fn |-> "isValidISBN", arg |-> t, res |-> isValidISBN(t),
                    from |-> call.arg, edit |-> "digit"]
    /\ UNCHANGED <<Fields, addLog, prev>>
    /\ UNCHANGED world

IsbnInit ==
    /\ Fields = NewValidationError
    /\ addLog = <<>>
    /\ call = Idle
    /\ prev = Idle
    /\ ServiceAtRest

IsbnNext ==
    \/ \E s \in IsbnInputs : IsbnCheck(s)
    \/ \E p \in 1..14, d \in Digits : IsbnMutateDigit(p, d)

SpecISBN == IsbnInit /\ [][IsbnNext]_vars

(***************************************************************************)
(* hasMax2Decimals under test.  A price arrives as a decimal literal (the   *)
(* JSON number of the request body, the constant of a test) and is the     *)
(* float64 nearest to it; NaN and the infinities are given as such.        *)
(***************************************************************************)
MaxDecimals == 3

DigitChar(v) == CHOOSE c \in Digits : Code(c) = 48 + v

RECURSIVE IntDigits(_)
IntDigits(n) ==
    IF n < 10 THEN <<DigitChar(n)>>
    ELSE Append(IntDigits(n \div 10), DigitChar(n % 10))

\* the literal with the digits of n, the last k of them decimals
Lit(neg, n, k) == [kind |-> "lit", neg |-> neg, digits |-> IntDigits(n), k |-> k]

LitValue(l) ==
    CASE l.kind = "nan" -> NaN
      [] l.kind = "inf" -> Inf(l.neg)
      [] l.kind = "lit" -> ParseFloat(l.neg, l.digits, l.k)

PriceDigits ==
    {0, 1, 5, 10, 15, 102, 335, 1001, 1023, 1230, 1239, 3350, 4999, 10234,
     12345, 1582678, 8388608, 8388609, 15826780, 29071478, 60329669,
     99999999, 100000000, 100000001}

PriceLits ==
    {Lit(neg, n, k) : neg \in BOOLEAN, n \in PriceDigits, k \in 0..MaxDecimals}
    \cup {[kind |-> "lit", neg |-> FALSE, k |-> 13,
           digits |-> <<"1", "0", "2", "3", "0", "0", "0", "0", "0", "0",
                        "0", "0", "0", "0", "1">>],
          [kind |-> "lit", neg |-> FALSE, k |-> 13,
           digits |-> <<"1", "0", "2", "2", "9", "9", "9", "9", "9", "9",
                        "9", "9", "9", "9", "9">>],
          [kind |-> "nan", neg |-> FALSE],
          [kind |-> "inf", neg |-> FALSE],
          [kind |-> "inf", neg |-> TRUE]}

DecCheck(l) ==
    /\ call = Idle
    /\ call' = [fn |-> "hasMax2Decimals", lit |-> l, arg |-> LitValue(l),
                res |-> hasMax2Decimals(LitValue(l))]
    /\ UNCHANGED <<Fields, addLog, prev>>
    /\ UNCHANGED world

DecInit ==
    /\ Fields = NewValidationError
    /\ addLog = <<>>
    /\ call = Idle
    /\ prev = Idle
    /\ ServiceAtRest

DecNext == \E l \in PriceLits : DecCheck(l)

SpecDec == DecInit /\ [][DecNext]_vars

(***************************************************************************)
(* The two validators under test, one call each.  The field values are the *)
(* boundary cases of each rule: empty, blank, padded, at and over the      *)
(* length limits, one-byte and two-byte letters; valid, lower-case, padded *)
(* and wrong ISBNs; years around the four-digit range; prices around the   *)
(* range and the two-decimal rule.                                         *)
(***************************************************************************)
MaxPad == 1

Pad == Rep(" ", MaxPad)

TitleInputs ==
    {<<>>, Pad, <<TAB>> \o Pad \o <<"a">> \o Pad \o <<NBSP>>,
     Rep("a", MaxTitleLen), Pad \o Rep("a", MaxTitleLen + 1),
     Rep(EACUTE, MaxTitleLen \div 2 + 1)}

AuthorInputs ==
    {<<>>, Pad \o <<"a", " ", "a">> \o Pad, Rep("a", MaxAuthorLen),
     Rep("a", MaxAuthorLen + 1), Rep(EACUTE, MaxAuthorLen \div 2 + 1)}

IsbnFieldInputs ==
    {<<>>,
     Pad \o <<"9", "7", "8", "-", "0", "-", "1", "3", "-", "2", "3", "5", "0", "8", "8", "-", "4">> \o Pad,
     <<"0", "8", "0", "4", "4", "2", "9", "5", "7", "x">>,
     <<"9", "7", "8", "0", "1", "3", "2", "3", "5", "0", "8", "8", "5">>,
     <<"0", "3", "0", "6", "4", "0", "6", "1", "5", "2">>}

YearInputs == {0, 123, minYear, 2008, maxYear, maxYear + 1, -2008}

PriceInputs ==
    {LitValue(l) : l \in
        {Lit(FALSE, 0, 0), Lit(FALSE, 3350, 2), Lit(FALSE, 12345, 3),
         Lit(TRUE, 1, 0), Lit(FALSE, 1000000, 0), Lit(FALSE, 100000001, 2),
         Lit(FALSE, 1582678, 1),
         [kind |-> "lit", neg |-> FALSE, k |-> 13,
          digits |-> <<"1", "0", "2", "3", "0", "0", "0", "0", "0", "0",
                       "0", "0", "0", "0", "1">>],
         [kind |-> "nan", neg |-> FALSE],
         [kind |-> "inf", neg |-> FALSE]}}

\* one accepted and one rejected value of each field
CoreTitles == {Pad, <<TAB>> \o Pad \o <<"a">> \o Pad \o <<NBSP>>}
CoreAuthors == {<<>>, Pad \o <<"a", " ", "a">> \o Pad}
CoreIsbns == {<<"9", "7", "8", "0", "1", "3", "2", "3", "5", "0", "8", "8", "5">>, Pad \o <<"9", "7", "8", "-", "0", "-", "1", "3", "-", "2", "3", "5", "0", "8", "8", "-", "4">> \o Pad}
CoreYears == {123, 2008}
CorePrices == {LitValue(Lit(FALSE, 12345, 3)), LitValue(Lit(FALSE, 3350, 2))}

\* how many fields of one input may take a value outside the core ones
MaxOffCore == 1

OffCore(in) ==
    Cardinality({f \in {"Title", "Author", "ISBN", "PublicationYear", "Price"} :
        CASE f = "Title" -> in.Title \notin CoreTitles
          [] f = "Author" -> in.Author \notin CoreAuthors
          [] f = "ISBN" -> in.ISBN \notin CoreIsbns
          [] f = "PublicationYear" -> in.PublicationYear \notin CoreYears
          [] f = "Price" -> in.Price \notin CorePrices})

CreateInputs ==
    {in \in [Title : TitleInputs, Author : AuthorInputs,
             ISBN : IsbnFieldInputs, PublicationYear : YearInputs,
             Price : PriceInputs] : OffCore(in) <= MaxOffCore}

\* an optional field of a patch: present with a value, or absent
Opt(S, none) ==
    {[some |-> TRUE, v |-> x] : x \in S} \cup {[some |-> FALSE, v |-> none]}

\* the struct of values a patch's present fields hold (absent ones: a core
\* value, which OffCore does not count)
PatchValues(p) ==
    [Title |-> IF p.Title.some THEN p.Title.v ELSE Pad,
     Author |-> IF p.Author.some THEN p.Author.v ELSE <<>>,
     ISBN |-> IF p.ISBN.some THEN p.ISBN.v ELSE <<"9", "7", "8", "0", "1", "3", "2", "3", "5", "0", "8", "8", "5">>,
     PublicationYear |->
         IF p.PublicationYear.some THEN p.PublicationYear.v ELSE 2008,
     Price |-> IF p.Price.some THEN p.Price.v
               ELSE LitValue(Lit(FALSE, 3350, 2))]

Patches ==
    {p \in [Title : Opt(TitleInputs, <<>>), Author : Opt(AuthorInputs, <<>>),
            ISBN : Opt(IsbnFieldInputs, <<>>),
            PublicationYear : Opt(YearInputs, 0),
            Price : Opt(PriceInputs, NaN)] :
        OffCore(PatchValues(p)) <= MaxOffCore}

\* the address of the cell the decoder allocates for a present field
AddrOf(f) ==
    CASE f = "Title" -> "&title" [] f = "Author" -> "&author"
      [] f = "ISBN" -> "&isbn" [] f = "PublicationYear" -> "&year"
      [] f = "Price" -> "&price"

StructFields == {"Title", "Author", "ISBN", "PublicationYear", "Price"}

\* the UpdateBookInput of a patch, and the caller's memory behind it
PatchStruct(p) == [f \in StructFields |-> IF p[f].some THEN AddrOf(f) ELSE NIL]
PatchMem(p) ==
    [a \in {AddrOf(f) : f \in {g \in StructFields : p[g].some}} |->
        LET f == CHOOSE g \in StructFields : AddrOf(g) = a IN p[f].v]

Create(in) ==
    /\ call = Idle
    /\ call' = [fn |-> "create", in |-> in,
                ret |-> validateAndNormalizeCreate(in)]
    /\ UNCHANGED <<Fields, addLog, prev>>
    /\ UNCHANGED world

Update(p) ==
    /\ call = Idle
    /\ call' = [fn |-> "update", in |-> PatchStruct(p), mem |-> PatchMem(p),
                ret |-> validateAndNormalizeUpdate(PatchStruct(p),
                                                   PatchMem(p))]
    /\ UNCHANGED <<Fields, addLog, prev>>
    /\ UNCHANGED world

BookInit ==
    /\ Fields = NewValidationError
    /\ addLog = <<>>
    /\ call = Idle
    /\ prev = Idle
    /\ ServiceAtRest

BookNext ==
    \/ \E in \in CreateInputs : Create(in)
    \/ \E p \in Patches : Update(p)

SpecBook == BookInit /\ [][BookNext]_vars

(***************************************************************************)
(* Claims about the accumulator and the ISBN checks.                       *)
(***************************************************************************)
\* the message of the first add call for field f in the log
FirstMsg(log, f) ==
    LET i == CHOOSE j \in 1..Len(log) :
                 log[j][1] = f /\ \A h \in 1..(j - 1) : log[h][1] # f
    IN  log[i][2]

\* C1: after any sequence of add calls the recorded fields are exactly the
\* fields ever added, and each holds the message of the first add call for
\* it (a later add for a recorded field changes nothing).
C1_FirstWriteWins ==
    /\ DOMAIN Fields.m = {addLog[i][1] : i \in 1..Len(addLog)}
    /\ \A f \in DOMAIN Fields.m : Fields.m[f] = FirstMsg(addLog, f)

\* C1 witness: a field was added twice, the second time with another message.
C1_Witness ==
    \E i, j \in 1..Len(addLog) :
        i < j /\ addLog[i][1] = addLog[j][1] /\ addLog[i][2] # addLog[j][2]

\* the value of a digit or of X as the ISBN checksums count it
IsbnValue(c) ==
    IF c = "X" THEN 10 ELSE CHOOSE v \in 0..9 : Code(c) = 48 + v

RECURSIVE WeightedSum(_, _, _)
WeightedSum(n, w, i) ==
    IF i > Len(w) THEN 0
    ELSE w[i] * IsbnValue(n[i]) + WeightedSum(n, w, i + 1)

\* ISBN-10 as the specification states it
SpecISBN10(n) ==
    /\ Len(n) = 10
    /\ \A i \in 1..9 : n[i] \in Digits
    /\ n[10] \in Digits \cup {"X"}
    /\ WeightedSum(n, <<10, 9, 8, 7, 6, 5, 4, 3, 2, 1>>, 1) % 11 = 0

\* ISBN-13 as the specification states it
SpecISBN13(n) ==
    /\ Len(n) = 13
    /\ \A i \in 1..13 : n[i] \in Digits
    /\ IsbnValue(n[13]) =
         (10 - (WeightedSum(n, <<1, 3, 1, 3, 1, 3, 1, 3, 1, 3, 1, 3>>, 1) % 10))
           % 10

\* C4: isValidISBN(s) is true iff the normalized form of s is a valid ISBN-10
\* or a valid ISBN-13 as the specification states them; every other length or
\* content is rejected.
C4_IsValidISBNIffChecksum ==
    call.fn = "isValidISBN" =>
        LET n == normalizeISBN(call.arg)
        IN  call.res <=> (SpecISBN10(n) \/ SpecISBN13(n))

\* C4 witness: an accepted ISBN-10 whose check character is X, written with a
\* separator.
C4_Witness ==
    /\ call.fn = "isValidISBN"
    /\ call.res
    /\ \E i \in 1..Len(call.arg) : call.arg[i] \in {"-", " "}
    /\ LET n == normalizeISBN(call.arg) IN Len(n) = 10 /\ n[10] = "X"

\* C5: the two ISBNs of the specification are valid, and a valid ISBN with
\* one digit replaced by a different digit is rejected.
C5_SingleDigitErrorDetected ==
    /\ isValidISBN(<<"0", "3", "0", "6", "4", "0", "6", "1", "5", "2">>)
    /\ isValidISBN(<<"9", "7", "8", "0", "3", "0", "6", "4", "0", "6", "1",
                     "5", "7">>)
    /\ (call.fn = "isValidISBN" /\ call.edit = "digit") => ~call.res

\* C5 witness: a valid ISBN-10 ending in X had one of its digits replaced.
C5_Witness ==
    /\ call.fn = "isValidISBN"
    /\ call.edit = "digit"
    /\ Len(call.from) = 10
    /\ call.from[10] = "X"
    /\ isValidISBN(call.from)

(***************************************************************************)
(* Claims about hasMax2Decimals.                                           *)
(***************************************************************************)
\* 10^k as a big number
RECURSIVE BPow10(_)
BPow10(k) == IF k = 0 THEN <<1>> ELSE BMulS(BPow10(k - 1), 10)

RECURSIVE BMul10(_, _)
BMul10(n, k) == IF k = 0 THEN n ELSE BMul10(BMulS(n, 10), k - 1)

\* In exact arithmetic: the finite value v times 100 is nearer than 10^-p to
\* an integer.
NearCents(v, p) ==
    IF v.m = <<>> \/ v.e >= 0 THEN TRUE
    ELSE LET s == -v.e
             X == BMulS(v.m, 100)
             x == BShr(X, s - 1)
             ip == BDivS(x.q, 2).q
             frac == BSub(X, BShl(ip, s))
             D == IF BOdd(x.q) THEN BSub(BShl(<<1>>, s), frac) ELSE frac
         IN  BCmp(BMul10(D, p), BShl(<<1>>, s)) < 0

\* the literal writes at most two decimal digits (further ones are zeros)
AtMostTwoDecimals(l) ==
    \A i \in 1..Len(l.digits) : i > Len(l.digits) - l.k + 2 => l.digits[i] = "0"

\* the literal's third decimal digit is not zero
ThirdDecimal(l) ==
    /\ l.k >= 3
    /\ Len(l.digits) - l.k + 3 >= 1
    /\ l.digits[Len(l.digits) - l.k + 3] # "0"

\* C6: hasMax2Decimals is false for NaN and the infinities; for a finite v it
\* is true iff the float64 difference between v*100 and v*100 rounded is
\* below 1e-9; hence a value written with at most two decimal digits is
\* accepted and one with a genuine third decimal digit is rejected.
C6_HasMax2Decimals ==
    call.fn = "hasMax2Decimals" =>
        /\ call.arg.kind # "fin" => ~call.res
        /\ call.arg.kind = "fin" =>
             (call.res <=>
                 LET scaled == FMulInt(call.arg, 100)
                 IN  FLess(FAbs(FSub(scaled, FRound(scaled))), Epsilon))
        /\ call.lit.kind = "lit" =>
             /\ AtMostTwoDecimals(call.lit) => call.res
             /\ ThirdDecimal(call.lit) => ~call.res

(***************************************************************************)
(* Two calls of one validator side by side: the first is kept in prev.     *)
(***************************************************************************)
PairCreateInputs ==
    [Title : CoreTitles, Author : CoreAuthors, ISBN : CoreIsbns,
     PublicationYear : CoreYears, Price : CorePrices]

PairPatches ==
    [Title : Opt(CoreTitles, <<>>), Author : Opt({<<>>}, <<>>),
     ISBN : Opt(CoreIsbns, <<>>), PublicationYear : Opt({123}, 0),
     Price : Opt(CorePrices, NaN)]

PairFirstCreate(in) ==
    /\ call = Idle
    /\ call' = [fn |-> "create", in |-> in,
                ret |-> validateAndNormalizeCreate(in)]
    /\ UNCHANGED <<Fields, addLog, prev>>
    /\ UNCHANGED world

PairSecondCreate(in) ==
    /\ prev = Idle
    /\ call # Idle
    /\ call.fn = "create"
    /\ prev' = call
    /\ call' = [fn |-> "create", in |-> in,
                ret |-> validateAndNormalizeCreate(in)]
    /\ UNCHANGED <<Fields, addLog>>
    /\ UNCHANGED world

PairFirstUpdate(p) ==
    /\ call = Idle
    /\ call' = [fn |-> "update", in |-> PatchStruct(p), mem |-> PatchMem(p),
                ret |-> validateAndNormalizeUpdate(PatchStruct(p),
                                                   PatchMem(p))]
    /\ UNCHANGED <<Fields, addLog, prev>>
    /\ UNCHANGED world

PairSecondUpdate(p) ==
    /\ prev = Idle
    /\ call # Idle
    /\ call.fn = "update"
    /\ prev' = call
    /\ call' = [fn |-> "update", in |-> PatchStruct(p), mem |-> PatchMem(p),
                ret |-> validateAndNormalizeUpdate(PatchStruct(p),
                                                   PatchMem(p))]
    /\ UNCHANGED <<Fields, addLog>>
    /\ UNCHANGED world

PairInit ==
    /\ Fields = NewValidationError
    /\ addLog = <<>>
    /\ call = Idle
    /\ prev = Idle
    /\ ServiceAtRest

PairNext ==
    \/ \E in \in PairCreateInputs : PairFirstCreate(in)
    \/ \E in \in PairCreateInputs : PairSecondCreate(in)
    \/ \E p \in PairPatches : PairFirstUpdate(p)
    \/ \E p \in PairPatches : PairSecondUpdate(p)

SpecPair == PairInit /\ [][PairNext]_vars

(***************************************************************************)
(* Claims about the two validators.  The rules are those of the            *)
(* specification's table: lengths count characters, the ISBN passes the    *)
(* checksum as stated, a price is a decimal number of at most two decimal  *)
(* digits held as the nearest float64.                                     *)
(***************************************************************************)
\* the JSON key of a struct field
KeyOf(f) ==
    CASE f = "Title" -> "title" [] f = "Author" -> "author"
      [] f = "ISBN" -> "isbn" [] f = "PublicationYear" -> "publication_year"
      [] f = "Price" -> "price"

\* the keys of a returned error (none when it is nil)
ErrKeys(err) == DOMAIN err.fields

RECURSIVE BToInt(_)
BToInt(n) == IF n = <<>> THEN 0 ELSE Head(n) + Limb * BToInt(Tail(n))

\* the whole number of cents nearest to the finite value v, 0 < v <= 10^6
Cents(v) ==
    LET q == BShr(BMulS(v.m, 100), -v.e - 1).q
    IN  BToInt(BDivS(q, 2).q) + (IF BOdd(q) THEN 1 ELSE 0)

\* v is the float64 of a number written with at most two decimal digits
TwoDecimalDouble(v) ==
    \/ v.m = <<>>
    \/ /\ v.e < 0
       /\ LET w == ParseFloat(FALSE, IntDigits(Cents(v)), 2)
          IN  w.m = v.m /\ w.e = v.e

TextRule(t, limit) ==
    LET n == Len(TrimSpace(t)) IN n >= 1 /\ n <= limit

IsbnRule(s) ==
    LET n == normalizeISBN(TrimSpace(s)) IN SpecISBN10(n) \/ SpecISBN13(n)

YearRule(y) == y # 0 /\ y >= 1000 /\ y <= 9999

PriceInRange(v) ==
    v.kind = "fin" /\ ~FLess(v, Zero(FALSE)) /\ ~FLess(MaxPrice, v)

\* the price certainly has at most two decimal digits
PriceRuleHolds(v) == PriceInRange(v) /\ TwoDecimalDouble(v)

\* the price certainly breaks a rule: out of range, or further than 10^-8
\* from every whole number of cents (a nearer value is within the tolerance
\* the decimal check is meant to have)
PriceRuleFails(v) == ~PriceInRange(v) \/ ~NearCents(v, 8)

\* C2: validateAndNormalizeCreate checks all five fields on every call: the
\* keys of the returned error are exactly the fields whose value violates its
\* rule, and the error is nil iff no field violates its rule.
C2_ErrorKeysAreViolatedRules ==
    call.fn = "create" =>
        /\ ("title" \in ErrKeys(call.ret.err))
               <=> ~TextRule(call.in.Title, MaxTitleLen)
        /\ ("author" \in ErrKeys(call.ret.err))
               <=> ~TextRule(call.in.Author, MaxAuthorLen)
        /\ ("isbn" \in ErrKeys(call.ret.err)) <=> ~IsbnRule(call.in.ISBN)
        /\ ("publication_year" \in ErrKeys(call.ret.err))
               <=> ~YearRule(call.in.PublicationYear)
        /\ PriceRuleHolds(call.in.Price) => "price" \notin ErrKeys(call.ret.err)
        /\ PriceRuleFails(call.in.Price) => "price" \in ErrKeys(call.ret.err)
        /\ call.ret.err.isNil <=> ErrKeys(call.ret.err) = {}

\* a trimmed, non-empty text of at most limit characters
CleanText(t, limit) ==
    /\ t # <<>>
    /\ ~IsSpace(t[1])
    /\ ~IsSpace(t[Len(t)])
    /\ Len(t) <= limit

\* what an accepted book satisfies, but for the decimals of its price
AcceptedShape(out) ==
    /\ Len(out.ISBN) \in {10, 13}
    /\ \A i \in 1..(Len(out.ISBN) - 1) : out.ISBN[i] \in Digits
    /\ out.ISBN[Len(out.ISBN)] \in Digits \cup {"X"}
    /\ PriceInRange(out.Price)
    /\ out.PublicationYear >= 1000
    /\ out.PublicationYear <= 9999
    /\ CleanText(out.Title, MaxTitleLen)
    /\ CleanText(out.Author, MaxAuthorLen)

\* C3 (amended): whenever validateAndNormalizeCreate returns a nil error the
\* returned ISBN is 10 or 13 digits with an optional final X, the year is in
\* 1000..9999, title and author are non-empty, trimmed and within 120 and 80
\* characters, and the price is in 0..1,000,000 and within 10^-10 of a number
\* of at most two decimal digits (its hundredfold within 10^-8 of an integer).
C3_AcceptedOutputInvariants ==
    (call.fn = "create" /\ call.ret.err.isNil) =>
        /\ AcceptedShape(call.ret.out)
        /\ NearCents(call.ret.out.Price, 8)

\* C3 witness: an accepted input whose title and ISBN were changed by the
\* normalisation.
C3_Witness ==
    /\ call.fn = "create"
    /\ call.ret.err.isNil
    /\ call.ret.out.Title # call.in.Title
    /\ call.ret.out.ISBN # call.in.ISBN

\* C3 as stated: whenever validateAndNormalizeCreate returns a nil error the
\* returned value satisfies the same, with a price of at most two decimal
\* digits.
C3_AcceptedPriceHasTwoDecimals ==
    (call.fn = "create" /\ call.ret.err.isNil) =>
        /\ AcceptedShape(call.ret.out)
        /\ TwoDecimalDouble(call.ret.out.Price)

\* C7: each field absent in the patch given to validateAndNormalizeUpdate is
\* absent in the output and has no entry in the error set; a patch with only
\* price set yields an output with only price present.
C7_AbsentStaysAbsent ==
    call.fn = "update" =>
        /\ \A f \in StructFields :
               call.in[f] = NIL =>
                   /\ call.ret.out[f] = NIL
                   /\ KeyOf(f) \notin ErrKeys(call.ret.err)
        /\ {f \in StructFields : call.in[f] # NIL} = {"Price"} =>
               {f \in StructFields : call.ret.out[f] # NIL} = {"Price"}

\* C7 witness: an accepted patch with only price set.
C7_Witness ==
    /\ call.fn = "update"
    /\ {f \in StructFields : call.in[f] # NIL} = {"Price"}
    /\ call.ret.err.isNil

\* a create input every field of which is accepted
BaseInput ==
    [Title |-> <<"a">>, Author |-> <<"a">>,
     ISBN |-> <<"0", "3", "0", "6", "4", "0", "6", "1", "5", "2">>,
     PublicationYear |-> 2008, Price |-> LitValue(Lit(FALSE, 3350, 2))]

\* what create mode does with the value v of field f
CreateWith(f, v) == validateAndNormalizeCreate([BaseInput EXCEPT ![f] = v])

SameAsCreate(f, c) ==
    /\ (KeyOf(f) \in ErrKeys(call.ret.err)) <=> (KeyOf(f) \in ErrKeys(c.err))
    /\ KeyOf(f) \notin ErrKeys(call.ret.err) =>
           call.ret.mem[call.ret.out[f]] = c.out[f]

\* C8: for each field present in a patch with value v, update mode records an
\* error for the field iff create mode records one for it when given v, and
\* when the field is accepted the value the update output holds equals the
\* normalized value create mode returns for it.
C8_UpdateAppliesCreateRules ==
    call.fn = "update" =>
        \A f \in StructFields :
            call.in[f] # NIL =>
                SameAsCreate(f, CreateWith(f, call.mem[call.in[f]]))

\* C8 witness: a patch whose ISBN was accepted and changed by the
\* normalisation, and whose title was rejected.
C8_Witness ==
    /\ call.fn = "update"
    /\ call.in.ISBN # NIL
    /\ "isbn" \notin ErrKeys(call.ret.err)
    /\ call.ret.mem[call.ret.out.ISBN] # call.mem[call.in.ISBN]
    /\ "title" \in ErrKeys(call.ret.err)

\* the value of field f a call was given, and what the call made of it: the
\* error message recorded for it and the value the output holds
GivenValue(c, f) ==
    IF c.fn = "create" THEN [some |-> TRUE, v |-> c.in[f]]
    ELSE IF c.in[f] = NIL THEN [some |-> FALSE]
    ELSE [some |-> TRUE, v |-> c.mem[c.in[f]]]

OutcomeFor(c, f) ==
    [msg |-> IF KeyOf(f) \in ErrKeys(c.ret.err)
             THEN <<c.ret.err.fields[KeyOf(f)]>> ELSE <<>>,
     val |-> IF c.fn = "create" THEN <<c.ret.out[f]>>
             ELSE IF c.ret.out[f] = NIL THEN <<>>
             ELSE <<c.ret.mem[c.ret.out[f]]>>]

\* C9: two calls of the same validator whose inputs agree on a field have the
\* same outcome for that field (its error message, its output value),
\* whatever the other four fields are.
C9_FieldsAreIndependent ==
    (prev # Idle /\ prev.fn = call.fn) =>
        \A f \in StructFields :
            GivenValue(prev, f) = GivenValue(call, f) =>
                OutcomeFor(prev, f) = OutcomeFor(call, f)

\* C9 witness: two update calls that agree on an accepted price, the first
\* with no other error and the second with another field rejected.
C9_Witness ==
    /\ prev # Idle
    /\ prev.fn = "update"
    /\ call.fn = "update"
    /\ prev.in.Price # NIL
    /\ GivenValue(prev, "Price") = GivenValue(call, "Price")
    /\ prev.ret.err.isNil
    /\ ~call.ret.err.isNil
    /\ "price" \notin ErrKeys(call.ret.err)

\* C10: validateAndNormalizeUpdate has no side effects on its caller: after
\* the call, accepted or not, the values the patch's fields refer to are the
\* same as before.
C10_NoSideEffects ==
    call.fn = "update" => call.ret.mem = call.mem

(***************************************************************************)
(* Strings of the URL engine (package strings).  Positions count from 1,   *)
(* and 0 stands for Go's -1.                                               *)
(***************************************************************************)
Min(S) == CHOOSE x \in S : \A y \in S : x <= y
Max(S) == CHOOSE x \in S : \A y \in S : x >= y

FirstOf(I) == IF I = {} THEN 0 ELSE Min(I)
LastOf(I) == IF I = {} THEN 0 ELSE Max(I)

\* strings.IndexByte, strings.LastIndex for a one-character substring
IndexByte(s, c) == FirstOf({i \in 1..Len(s) : s[i] = c})
LastIndexByte(s, c) == LastOf({i \in 1..Len(s) : s[i] = c})

\* strings.Count for a one-character substring
Count(s, c) == Cardinality({i \in 1..Len(s) : s[i] = c})

HasPrefix(s, p) == Len(s) >= Len(p) /\ SubSeq(s, 1, Len(p)) = p

HasSuffix(s, p) ==
    Len(s) >= Len(p) /\ SubSeq(s, Len(s) - Len(p) + 1, Len(s)) = p

TrimSuffix(s, p) ==
    IF HasSuffix(s, p) THEN SubSeq(s, 1, Len(s) - Len(p)) ELSE s

\* s before and after position i
Before(s, i) == SubSeq(s, 1, i - 1)
After(s, i) == SubSeq(s, i + 1, Len(s))

\* strings.Cut(s, c): s cut at position i, the first c (nothing found: i = 0)
CutAt(s, i) ==
    IF i = 0 THEN [before |-> s, after |-> <<>>, found |-> FALSE]
    ELSE [before |-> Before(s, i), after |-> After(s, i), found |-> TRUE]

Cut(s, c) == CutAt(s, IndexByte(s, c))

\* strings.Split(s, c)
RECURSIVE Split(_, _)
Split(s, c) ==
    IF IndexByte(s, c) = 0 THEN <<s>>
    ELSE <<Before(s, IndexByte(s, c))>> \o Split(After(s, IndexByte(s, c)), c)

\* a < b as Go orders strings (byte by byte)
RECURSIVE LessStr(_, _)
LessStr(a, b) ==
    IF b = <<>> THEN FALSE
    ELSE IF a = <<>> THEN TRUE
    ELSE IF Head(a) = Head(b) THEN LessStr(Tail(a), Tail(b))
    ELSE Code(Head(a)) < Code(Head(b))

(***************************************************************************)
(* net/url as the handler uses it: Parse, URL.String, URL.Query and        *)
(* Values.Encode.  The inputs carry no userinfo ("@"), no bracketed IP     *)
(* literal and no byte above 127; every other branch is followed.          *)
(***************************************************************************)
HexDigits ==
    <<"0", "1", "2", "3", "4", "5", "6", "7", "8", "9",
      "A", "B", "C", "D", "E", "F">>

UrlPunct == {" ", TAB, "#", "%", "&", "+", "-", ".", "/", ":", ";", "=",
             "?", "_", "~"}

UrlChars ==
    Digits \cup UrlPunct \cup {LowerLetters[i] : i \in 1..26}
           \cup {UpperLetters[i] : i \in 1..26}

ishex(c) ==
    \/ c \in Digits
    \/ c \in {"a", "b", "c", "d", "e", "f", "A", "B", "C", "D", "E", "F"}

unhex(c) ==
    IF c \in Digits THEN Code(c) - 48
    ELSE IF IsLower(c) THEN Code(c) - 97 + 10
    ELSE Code(c) - 65 + 10

\* the character a byte is
ByteChar(b) == CHOOSE c \in UrlChars : Code(c) = b

\* shouldEscape(c, mode) for the modes encodePath, encodeHost,
\* encodeQueryComponent and encodeFragment
shouldEscape(c, mode) ==
    IF IsLower(c) \/ IsUpper(c) \/ c \in Digits THEN FALSE
    ELSE IF mode = "host" /\ c \in {"&", "+", ";", "=", ":"} THEN FALSE
    ELSE IF c \in {"-", "_", ".", "~"} THEN FALSE
    ELSE IF c \in {"&", "+", "/", ":", ";", "=", "?"}
         THEN (CASE mode = "path" -> c = "?"
                 [] mode = "query" -> TRUE
                 [] mode = "fragment" -> FALSE
                 [] mode = "host" -> TRUE)
    ELSE TRUE

\* unescape: what makes it fail at position i
BadEscapeAt(s, i, mode) ==
    /\ s[i] = "%"
    /\ \/ i + 2 > Len(s)
       \/ ~ishex(s[i + 1])
       \/ ~ishex(s[i + 2])
       \/ /\ mode = "host"
          /\ unhex(s[i + 1]) < 8
          /\ SubSeq(s, i, i + 2) # <<"%", "2", "5">>

BadHostCharAt(s, i, mode) ==
    mode = "host" /\ s[i] # "%" /\ shouldEscape(s[i], "host")

unescapeFails(s, mode) ==
    \E i \in 1..Len(s) : BadEscapeAt(s, i, mode) \/ BadHostCharAt(s, i, mode)

\* unescape: the decoded string of one that does not fail
RECURSIVE unescape(_, _)
unescape(s, mode) ==
    IF s = <<>> THEN <<>>
    ELSE IF Head(s) = "%"
    THEN <<ByteChar(16 * unhex(s[2]) + unhex(s[3]))>>
             \o unescape(SubSeq(s, 4, Len(s)), mode)
    ELSE IF Head(s) = "+" /\ mode = "query"
    THEN <<" ">> \o unescape(Tail(s), mode)
    ELSE <<Head(s)>> \o unescape(Tail(s), mode)

escapeChar(c, mode) ==
    IF ~shouldEscape(c, mode) THEN <<c>>
    ELSE IF c = " " /\ mode = "query" THEN <<"+">>
    ELSE <<"%", HexDigits[(Code(c) \div 16) + 1], HexDigits[(Code(c) % 16) + 1]>>

RECURSIVE escape(_, _)
escape(s, mode) ==
    IF s = <<>> THEN <<>>
    ELSE escapeChar(Head(s), mode) \o escape(Tail(s), mode)

validEncoded(s, mode) ==
    \A i \in 1..Len(s) :
        \/ s[i] \in {"&", "+", ";", "=", ":", "%"}
        \/ ~shouldEscape(s[i], mode)

\* the url.URL struct (User is nil and OmitHost false throughout)
EmptyURL ==
    [Scheme |-> <<>>, Opaque |-> <<>>, Host |-> <<>>, Path |-> <<>>,
     RawPath |-> <<>>, ForceQuery |-> FALSE, RawQuery |-> <<>>,
     Fragment |-> <<>>]

ParseFailed == [err |-> TRUE, u |-> EmptyURL]
Parsed(u) == [err |-> FALSE, u |-> u]

\* stringContainsCTLByte
ContainsCTL(s) == \E i \in 1..Len(s) : Code(s[i]) < 32 \/ Code(s[i]) = 127

\* getScheme: k is where the scan of the scheme stops (0: at the end)
SchemeStop(raw) ==
    FirstOf({i \in 1..Len(raw) :
                ~(\/ IsLower(raw[i])
                  \/ IsUpper(raw[i])
                  \/ (i > 1 /\ raw[i] \in Digits \cup {"+", "-", "."}))})

getSchemeAt(raw, k) ==
    IF k = 0 \/ raw[k] # ":"
    THEN [err |-> FALSE, scheme |-> <<>>, rest |-> raw]
    ELSE IF k = 1 THEN [err |-> TRUE, scheme |-> <<>>, rest |-> raw]
    ELSE [err |-> FALSE, scheme |-> Before(raw, k), rest |-> After(raw, k)]

getScheme(raw) == getSchemeAt(raw, SchemeStop(raw))

\* the query cut off the rest: a lone final "?" forces an empty query
splitQuery(rest) ==
    IF HasSuffix(rest, <<"?">>) /\ Count(rest, "?") = 1
    THEN [rest |-> Before(rest, Len(rest)), RawQuery |-> <<>>,
          ForceQuery |-> TRUE]
    ELSE [rest |-> Cut(rest, "?").before, RawQuery |-> Cut(rest, "?").after,
          ForceQuery |-> FALSE]

validOptionalPort(port) ==
    \/ port = <<>>
    \/ port[1] = ":" /\ \A i \in 2..Len(port) : port[i] \in Digits

\* parseHost fails
parseHostFails(host) ==
    \/ /\ LastIndexByte(host, ":") # 0
       /\ ~validOptionalPort(SubSeq(host, LastIndexByte(host, ":"), Len(host)))
    \/ unescapeFails(host, "host")

\* URL.setPath
setPath(u, p) ==
    IF unescapeFails(p, "path") THEN ParseFailed
    ELSE Parsed([u EXCEPT
                   !.Path = unescape(p, "path"),
                   !.RawPath = IF escape(unescape(p, "path"), "path") = p
                               THEN <<>> ELSE p])

\* the authority a and the path after it
parseAuthority(u, a, path) ==
    IF parseHostFails(a) THEN ParseFailed
    ELSE setPath([u EXCEPT !.Host = unescape(a, "host")], path)

\* rest begins with "//": the authority runs to the next "/"
parseSlashSlash(u, r) ==
    IF IndexByte(r, "/") = 0 THEN parseAuthority(u, r, <<>>)
    ELSE parseAuthority(u, Before(r, IndexByte(r, "/")),
                        SubSeq(r, IndexByte(r, "/"), Len(r)))

\* parse, after the scheme and the query are cut off
parseRest(u, rest) ==
    IF ~HasPrefix(rest, <<"/">>) /\ u.Scheme # <<>>
    THEN Parsed([u EXCEPT !.Opaque = rest])
    ELSE IF ~HasPrefix(rest, <<"/">>) /\ IndexByte(Cut(rest, "/").before, ":") # 0
    THEN ParseFailed
    ELSE IF /\ u.Scheme # <<>> \/ ~HasPrefix(rest, <<"/", "/", "/">>)
            /\ HasPrefix(rest, <<"/", "/">>)
    THEN parseSlashSlash(u, SubSeq(rest, 3, Len(rest)))
    ELSE setPath(u, rest)

parseQuery(scheme, q) ==
    parseRest([EmptyURL EXCEPT !.Scheme = ToLower(scheme),
                               !.RawQuery = q.RawQuery,
                               !.ForceQuery = q.ForceQuery],
              q.rest)

parseScheme(g) ==
    IF g.err THEN ParseFailed ELSE parseQuery(g.scheme, splitQuery(g.rest))

\* parse(rawURL, false)
parse(raw) ==
    IF ContainsCTL(raw) THEN ParseFailed ELSE parseScheme(getScheme(raw))

\* URL.setFragment
setFragment(r, frag) ==
    IF r.err \/ frag = <<>> THEN r
    ELSE IF unescapeFails(frag, "fragment") THEN ParseFailed
    ELSE Parsed([r.u EXCEPT !.Fragment = unescape(frag, "fragment")])

\* url.Parse
Parse(raw) == setFragment(parse(Cut(raw, "#").before), Cut(raw, "#").after)

\* URL.EscapedPath
EscapedPath(u) ==
    IF /\ u.RawPath # <<>>
       /\ validEncoded(u.RawPath, "path")
       /\ ~unescapeFails(u.RawPath, "path")
       /\ unescape(u.RawPath, "path") = u.Path
    THEN u.RawPath
    ELSE escape(u.Path, "path")

\* URL.String: the path part
StringPath(u, path) ==
    (IF path # <<>> /\ path[1] # "/" /\ u.Host # <<>> THEN <<"/">> ELSE <<>>)
        \o path

\* URL.String
String(u) ==
    (IF u.Scheme # <<>> THEN u.Scheme \o <<":">> ELSE <<>>)
    \o (IF u.Opaque # <<>> THEN u.Opaque
        ELSE (IF (u.Scheme # <<>> \/ u.Host # <<>>)
                  /\ (u.Host # <<>> \/ u.Path # <<>>)
              THEN <<"/", "/">> ELSE <<>>)
             \o escape(u.Host, "host")
             \o StringPath(u, EscapedPath(u)))
    \o (IF u.ForceQuery \/ u.RawQuery # <<>>
        THEN <<"?">> \o u.RawQuery ELSE <<>>)
    \o (IF u.Fragment # <<>>
        THEN <<"#">> \o escape(u.Fragment, "fragment") ELSE <<>>)

\* one "key=value" of a query, cut at its first "="
QueryPair(seg) ==
    [k |-> unescape(Cut(seg, "=").before, "query"),
     v |-> unescape(Cut(seg, "=").after, "query")]

\* url.ParseQuery keeps a pair unless it is empty, holds a semicolon or does
\* not unescape
QueryPairOk(seg) ==
    /\ seg # <<>>
    /\ IndexByte(seg, ";") = 0
    /\ ~unescapeFails(Cut(seg, "=").before, "query")
    /\ ~unescapeFails(Cut(seg, "=").after, "query")

RECURSIVE QueryPairs(_)
QueryPairs(segs) ==
    IF segs = <<>> THEN <<>>
    ELSE (IF QueryPairOk(Head(segs)) THEN <<QueryPair(Head(segs))>> ELSE <<>>)
             \o QueryPairs(Tail(segs))

\* URL.Query: the pairs in their order (the map holds, for each key, its
\* values in this order)
Query(u) == QueryPairs(Split(u.RawQuery, "&"))

MinKey(keys) == CHOOSE k \in keys : \A j \in keys \ {k} : LessStr(k, j)

\* the pairs as Values.Encode visits them: keys sorted, the values of a key
\* in their order
RECURSIVE SortedPairs(_, _)
SortedPairs(keys, pairs) ==
    IF keys = {} THEN <<>>
    ELSE SelectSeq(pairs, LAMBDA p : p.k = MinKey(keys))
             \o SortedPairs(keys \ {MinKey(keys)}, pairs)

RECURSIVE JoinPairs(_)
JoinPairs(pairs) ==
    IF pairs = <<>> THEN <<>>
    ELSE (escape(Head(pairs).k, "query") \o <<"=">>
              \o escape(Head(pairs).v, "query"))
         \o (IF Len(pairs) > 1 THEN <<"&">> ELSE <<>>)
         \o JoinPairs(Tail(pairs))

\* Values.Encode
Encode(pairs) ==
    JoinPairs(SortedPairs({pairs[i].k : i \in 1..Len(pairs)}, pairs))

(***************************************************************************)
(* The URL engine: processURL and applyRedirection.                        *)
(***************************************************************************)
OpCanonical == <<"c", "a", "n", "o", "n", "i", "c", "a", "l">>
OpRedirection == <<"r", "e", "d", "i", "r", "e", "c", "t", "i", "o", "n">>
OpAll == <<"a", "l", "l">>

ErrInvalidURL == "invalid url"
ErrInvalidOperation == "invalid operation (use: redirection|canonical|all)"
ErrUnexpectedParse == "unexpected parse error"
ErrInvalidJSON == "invalid JSON body"

\* what processURL returns: (out, nil) and ("", err)
Succeed(out) == [out |-> out, err |-> ""]
Fail(msg) == [out |-> <<>>, err |-> msg]

WWW == <<"w", "w", "w", ".">>

\* Seeded fault: a host that already begins with "www." is not set aside.
needsWWWIgnoresPrefix(host) == Count(host, ".") >= 1

\* Seeded fault: any host with a dot is taken for a bare domain.
needsWWWAnyDots(host) ==
    IF HasPrefix(host, WWW) THEN FALSE ELSE Count(host, ".") >= 1

needsWWW(host) ==
    IF HasPrefix(host, WWW) THEN FALSE ELSE Count(host, ".") = 1

\* the host of a redirection: host is lower case, idx its first colon
redirectHostAt(host, idx) ==
    IF idx # 0
    THEN (IF needsWWW(Before(host, idx)) THEN WWW \o Before(host, idx)
          ELSE Before(host, idx))
         \o SubSeq(host, idx, Len(host))
    ELSE IF needsWWW(host) THEN WWW \o host
    ELSE host

redirectHost(host) ==
    redirectHostAt(ToLower(host), IndexByte(ToLower(host), ":"))

\* Seeded fault: the path keeps its letter case.
redirectPathKeepsCase(path) == TrimSuffix(path, <<"/">>)

redirectPath(path) == TrimSuffix(ToLower(path), <<"/">>)

\* the values of the query, one final slash trimmed from each
trimValues(pairs) ==
    [i \in 1..Len(pairs) |->
        [k |-> pairs[i].k, v |-> TrimSuffix(pairs[i].v, <<"/">>)]]

applyRedirection(u) ==
    String([u EXCEPT !.Host = redirectHost(u.Host),
                     !.Path = redirectPath(u.Path),
                     !.RawQuery = Encode(trimValues(Query(u))),
                     !.Fragment = <<>>])

\* a copy of the struct
cloneURL(u) == u

canonical(u) ==
    String([u EXCEPT !.RawQuery = <<>>,
                     !.Fragment = <<>>,
                     !.Path = TrimSuffix(u.Path, <<"/">>)])

\* the "all" case after the redirection is parsed again
canonicalOfRedirected(r) ==
    IF r.err THEN Fail(ErrUnexpectedParse)
    ELSE Succeed(String([r.u EXCEPT !.RawQuery = <<>>, !.Fragment = <<>>]))

\* Seeded fault: an unknown operation is treated as canonical.
dispatchDefaultsToCanonical(op, u) ==
    CASE op = OpCanonical -> Succeed(canonical(u))
      [] op = OpRedirection -> Succeed(applyRedirection(u))
      [] op = OpAll ->
            canonicalOfRedirected(Parse(applyRedirection(cloneURL(u))))
      [] OTHER -> Succeed(canonical(u))

\* the switch on op
dispatch(op, u) ==
    CASE op = OpCanonical -> Succeed(canonical(u))
      [] op = OpRedirection -> Succeed(applyRedirection(u))
      [] op = OpAll ->
            canonicalOfRedirected(Parse(applyRedirection(cloneURL(u))))
      [] OTHER -> Fail(ErrInvalidOperation)

\* Seeded fault: the host is not checked.
invalidURLSchemeOnly(r) == r.err \/ r.u.Scheme = <<>>

\* Seeded fault: the scheme is not checked.
invalidURLHostOnly(r) == r.err \/ r.u.Host = <<>>

\* err != nil || u.Scheme == "" || u.Host == ""
invalidURL(r) == r.err \/ r.u.Scheme = <<>> \/ r.u.Host = <<>>

\* Seeded fault: the operation is checked before the URL.
processParsedChecksOperationFirst(op, r) ==
    IF op \notin {OpCanonical, OpRedirection, OpAll}
    THEN Fail(ErrInvalidOperation)
    ELSE IF invalidURL(r) THEN Fail(ErrInvalidURL)
    ELSE dispatch(op, r.u)

\* Seeded fault: the parse failure gets a message of its own.
processParsedWrapsError(op, r) ==
    IF invalidURL(r) THEN Fail("invalid url: parse error")
    ELSE dispatch(op, r.u)

processParsed(op, r) ==
    IF invalidURL(r) THEN Fail(ErrInvalidURL) ELSE dispatch(op, r.u)

processURL(op, raw) == processParsed(op, Parse(raw))

\* the response the handler writes for what processURL returned
Respond(ret) ==
    IF ret.err # ""
    THEN [status |-> 400, error |-> ret.err, processed_url |-> <<>>]
    ELSE [status |-> 200, error |-> "", processed_url |-> ret.out]

(***************************************************************************)
(* The handler under test.  A URL is a scheme, an authority, a path with   *)
(* up to MaxSlashes slashes after it, a query and a fragment, each taken   *)
(* from the cases the parser and the three operations tell apart; a        *)
(* successful answer is then sent back under the same operation.           *)
(***************************************************************************)
MaxSlashes == 2

SchemeParts ==
    {<<>>, <<"h", "t", "t", "p", "s", ":">>, <<"H", "T", "T", "P", ":">>}

AuthorityParts ==
    {<<>>,
     <<"/", "/", "e", "x", "a", "m", "p", "l", "e", ".", "c", "o", "m">>,
     <<"/", "/", "E", "x", "a", "m", "p", "l", "e", ".", "C", "O", "M", ":", "8", "0", "8", "0">>,
     <<"/", "/", "w", "w", "w", ".", "e", "x", "a", "m", "p", "l", "e", ".", "c", "o", "m">>,
     <<"/", "/", "a", "p", "i", ".", "e", "x", "a", "m", "p", "l", "e", ".", "c", "o", "m">>,
     <<"/", "/", "l", "o", "c", "a", "l", "h", "o", "s", "t", ":", "8", "0">>,
     <<"/", "/", "a", ":", "b", ".", "c", ":", "8", "0">>,
     <<"/", "/", "a", " ", "b", ".", "c", "o", "m">>}

PathParts ==
    {<<>>, <<"/", "P", "a", "t", "h", "/", "T", "o">>,
     <<"/", "a", "%", "2", "F", "b">>, <<"/", "%", "z", "z">>,
     <<"n", "o", "t", "-", "a", "-", "u", "r", "l">>}

QueryParts ==
    {<<>>, <<"?">>, <<"?", "a", "=", "1">>,
     <<"?", "y", "=", "2", "&", "x", "=", "1", "/">>,
     <<"?", "a", ";", "b", "=", "1", "&", "c", "=", "%", "z", "z", "&", "=", "3", "&", "x", "=", "2", "/", "/", "&", "x", "=", "a", "+", "b", "%", "2", "F", "&", "f", "l", "a", "g">>}

FragmentParts ==
    {<<>>, <<"#", "f", "r", "a", "g">>}

RawURLs ==
    {s \o a \o p \o Rep("/", n) \o q \o f :
        s \in SchemeParts, a \in AuthorityParts, p \in PathParts,
        n \in 0..MaxSlashes, q \in QueryParts, f \in FragmentParts}

Operations ==
    {<<"c", "a", "n", "o", "n", "i", "c", "a", "l">>,
     <<"r", "e", "d", "i", "r", "e", "c", "t", "i", "o", "n">>,
     <<"a", "l", "l">>,
     <<" ", "C", "a", "n", "o", "n", "i", "c", "a", "l">>,
     <<"b", "o", "g", "u", "s">>, <<>>}

\* cleanupRequest
Requests == [URL : RawURLs, Operation : Operations]

CleanupCall(req, decoded, op) ==
    [fn |-> "CleanupURL", req |-> req, decoded |-> decoded, op |-> op,
     resp |-> IF decoded THEN Respond(processURL(op, req.URL))
              ELSE Respond(Fail(ErrInvalidJSON))]

\* Handler.CleanupURL on a body that decodes to a request
CleanupURL ==
    /\ call = Idle
    /\ \E req \in Requests :
          call' = CleanupCall(req, TRUE, ToLower(TrimSpace(req.Operation)))
    /\ UNCHANGED <<Fields, addLog, prev>>
    /\ UNCHANGED world

\* Handler.CleanupURL on a body that is not JSON
CleanupBadBody ==
    /\ call = Idle
    /\ call' = CleanupCall([URL |-> <<>>, Operation |-> <<>>], FALSE, <<>>)
    /\ UNCHANGED <<Fields, addLog, prev>>
    /\ UNCHANGED world

\* the processed URL of a successful answer, cleaned up again
CleanupAgain ==
    /\ call # Idle
    /\ prev = Idle
    /\ call.resp.status = 200
    /\ prev' = call
    /\ call' = CleanupCall([URL |-> call.resp.processed_url,
                            Operation |-> call.req.Operation],
                           TRUE, ToLower(TrimSpace(call.req.Operation)))
    /\ UNCHANGED <<Fields, addLog>>
    /\ UNCHANGED world

UrlInit ==
    /\ Fields = NewValidationError
    /\ addLog = <<>>
    /\ call = Idle
    /\ prev = Idle
    /\ ServiceAtRest

UrlNext ==
    \/ CleanupURL
    \/ CleanupBadBody
    \/ CleanupAgain

SpecURL == UrlInit /\ [][UrlNext]_vars

(***************************************************************************)
(* Claims about the URL engine.  A claim speaks of the answers to requests *)
(* the handler decoded; op is the operation as processURL receives it.     *)
(***************************************************************************)
\* the handler answered 200 to a decoded request for operation op
Answered(op) ==
    /\ call.fn = "CleanupURL"
    /\ call.decoded
    /\ call.op = op
    /\ call.resp.status = 200

\* the handler answered 400 with this message to a decoded request
Refused(msg) ==
    /\ call.fn = "CleanupURL"
    /\ call.decoded
    /\ call.resp.status = 400
    /\ call.resp.error = msg

\* raw up to its first "?" or "#"
CutQueryFragment(raw) ==
    CutAt(raw, FirstOf({i \in 1..Len(raw) : raw[i] \in {"?", "#"}})).before

\* C11: canonical returns the input with the query and the fragment removed
\* entirely (no "?" part, no "#" part) and exactly one trailing slash
\* stripped from the path; scheme, host and path are otherwise unchanged,
\* letter case included.
C11_CanonicalIsInputWithoutQueryFragment ==
    Answered(OpCanonical) =>
        call.resp.processed_url =
            TrimSuffix(CutQueryFragment(call.req.URL), <<"/">>)

\* the answer of the first request was sent back under operation op
Repeated(op) ==
    /\ prev # Idle
    /\ call.fn = "CleanupURL"
    /\ prev.op = op

\* C12: canonical is idempotent: canonical of a canonical result succeeds
\* and returns that result unchanged.
C12_CanonicalIsIdempotent ==
    Repeated(OpCanonical) =>
        /\ call.resp.status = 200
        /\ call.resp.processed_url = prev.resp.processed_url

\* the parsed URL of a request and of its answer
Given == Parse(call.req.URL).u
Returned == Parse(call.resp.processed_url).u

\* a host without its port (what follows its first colon), and that port
HostName(host) == Cut(host, ":").before
HostPort(host) == SubSeq(host, Len(HostName(host)) + 1, Len(host))

\* a lower-case host name with one dot that does not begin with "www."
IsBareDomain(name) ==
    /\ Cardinality({i \in 1..Len(name) : name[i] = "."}) = 1
    /\ ~(Len(name) >= 4 /\ SubSeq(name, 1, 4) = <<"w", "w", "w", ".">>)

Param(seg) ==
    IF QueryPairOk(seg) THEN QueryPair(seg)
    ELSE [k |-> Cut(seg, "=").before, v |-> Cut(seg, "=").after]

\* the parameters of a raw query in their order of appearance
ParamsOf(segs) == [i \in 1..Len(segs) |-> Param(segs[i])]
Params(rawQuery) ==
    ParamsOf(SelectSeq(Split(rawQuery, "&"), LAMBDA seg : seg # <<>>))

\* a value without one final slash
WithoutSlash(v) ==
    IF Len(v) > 0 /\ v[Len(v)] = "/" THEN SubSeq(v, 1, Len(v) - 1) ELSE v

\* C14: redirection preserves the query: the output has the parameters of
\* the input, each with the same name, in the same order, with the same
\* value less one trailing slash; none is dropped and none is added.
C14_RedirectionKeepsQuery ==
    Answered(OpRedirection) =>
        Params(Returned.RawQuery) =
            [i \in 1..Len(Params(Given.RawQuery)) |->
                [k |-> Params(Given.RawQuery)[i].k,
                 v |-> WithoutSlash(Params(Given.RawQuery)[i].v)]]

\* C15: redirection lower-cases the path (percent-escapes decoded), strips
\* one trailing slash from it and drops the fragment.
C15_RedirectionPath ==
    Answered(OpRedirection) =>
        /\ Returned.Path = WithoutSlash(ToLower(Given.Path))
        /\ Returned.Fragment = <<>>
        /\ \A i \in 1..Len(call.resp.processed_url) :
              call.resp.processed_url[i] # "#"

\* a path in capitals with a final slash, and a fragment, are redirected
C15_Witness ==
    /\ Answered(OpRedirection)
    /\ Given.Path = <<"/", "P", "a", "t", "h", "/", "T", "o", "/">>
    /\ Given.Fragment = <<"f", "r", "a", "g">>
    /\ Returned.Path = <<"/", "p", "a", "t", "h", "/", "t", "o">>

\* C16: all returns the URL with the scheme, host and path of the
\* redirection result, without a query string and without a fragment.
C16_AllIsRedirectionWithoutQuery ==
    Answered(OpAll) =>
        /\ call.resp.processed_url =
              CutQueryFragment(processURL(OpRedirection, call.req.URL).out)
        /\ \A i \in 1..Len(call.resp.processed_url) :
              call.resp.processed_url[i] \notin {"?", "#"}

\* the handler decoded a request
Decoded == call.fn = "CleanupURL" /\ call.decoded

\* the URL of the request parses to a non-empty scheme and host
Parseable ==
    /\ ~Parse(call.req.URL).err
    /\ Given.Scheme # <<>>
    /\ Given.Host # <<>>

\* C17: an input that does not parse to a URL with a non-empty scheme and a
\* non-empty host makes cleanup fail with "invalid url", whatever the
\* operation, and no URL is returned.
C17_InvalidURL ==
    Decoded /\ ~Parseable =>
        /\ call.resp.status = 400
        /\ call.resp.error = "invalid url"
        /\ call.resp.processed_url = <<>>

\* "not-a-url" is refused
C17_Witness ==
    /\ Decoded
    /\ call.req.URL = <<"n", "o", "t", "-", "a", "-", "u", "r", "l">>
    /\ call.op = OpCanonical
    /\ call.resp.error = "invalid url"

\* C18: for a parseable URL, an operation other than canonical, redirection
\* and all makes cleanup fail with the invalid-operation error that names
\* the allowed values.
C18_InvalidOperation ==
    Decoded /\ Parseable /\ call.op \notin {OpCanonical, OpRedirection, OpAll} =>
        /\ call.resp.status = 400
        /\ call.resp.error =
              "invalid operation (use: redirection|canonical|all)"
        /\ call.resp.processed_url = <<>>

\* "bogus" is refused for a parseable URL
C18_Witness ==
    /\ Decoded
    /\ Parseable
    /\ call.op = <<"b", "o", "g", "u", "s">>
    /\ call.resp.error = "invalid operation (use: redirection|canonical|all)"

\* C19: the engine fails with two messages only, "invalid url" and "invalid
\* operation (...)": a request with a parseable URL and one of the three
\* operations succeeds and returns a processed URL, and no other message is
\* produced.
C19_OnlyTwoMessages ==
    Decoded =>
        /\ call.resp.status = 400 =>
              call.resp.error \in
                  {"invalid url",
                   "invalid operation (use: redirection|canonical|all)"}
        /\ Parseable /\ call.op \in {OpCanonical, OpRedirection, OpAll} =>
              /\ call.resp.status = 200
              /\ call.resp.error = ""
              /\ call.resp.processed_url # <<>>

\* all succeeds on a URL with a port, an escaped path, a query and a
\* fragment, where the redirection is parsed a second time
C19_Witness ==
    /\ Answered(OpAll)
    /\ Given.Host = <<"E", "x", "a", "m", "p", "l", "e", ".", "C", "O", "M", ":", "8", "0", "8", "0">>
    /\ Given.RawPath # <<>>
    /\ Given.RawQuery # <<>>
    /\ Given.Fragment # <<>>

\* the scheme of a raw URL as written: the text before its first colon
WrittenScheme(raw) == Cut(raw, ":").before

\* C20 as stated: every returned URL has a non-empty scheme and a non-empty
\* host, and its scheme is the input's scheme.
C20_SchemeIsTheInputs ==
    Decoded /\ call.resp.status = 200 =>
        /\ ~Parse(call.resp.processed_url).err
        /\ Returned.Scheme # <<>>
        /\ Returned.Host # <<>>
        /\ WrittenScheme(call.resp.processed_url) =
              WrittenScheme(call.req.URL)

\* C20: every returned URL has a non-empty scheme and a non-empty host, and
\* its scheme is the input's scheme in lower case.
C20_SchemeAndHost ==
    Decoded /\ call.resp.status = 200 =>
        /\ ~Parse(call.resp.processed_url).err
        /\ Returned.Scheme # <<>>
        /\ Returned.Host # <<>>
        /\ WrittenScheme(call.resp.processed_url) =
              ToLower(WrittenScheme(call.req.URL))

\* a URL written with the scheme in capitals is returned
C20_Witness ==
    /\ Answered(OpCanonical)
    /\ WrittenScheme(call.req.URL) = <<"H", "T", "T", "P">>
    /\ WrittenScheme(call.resp.processed_url) = <<"h", "t", "t", "p">>
    /\ Returned.Host = <<"E", "x", "a", "m", "p", "l", "e", ".", "C", "O", "M", ":", "8", "0", "8", "0">>

(***************************************************************************)
(* Further claims about the validators.                                    *)
(***************************************************************************)
\* the limit the specification's table gives a text field, in characters
CharLimit(f) == IF f = "Title" THEN 120 ELSE 80

\* the text given for field f, trimmed
TrimmedGiven(f) == TrimSpace(GivenValue(call, f).v)

\* C21: the title and author limits count characters: in create and in
\* update mode a text whose trimmed form is non-empty is rejected iff that
\* form has more than 120 (title) or 80 (author) characters, whatever the
\* characters are, those of more than one byte included.
C21_LimitsCountCharacters ==
    call.fn \in {"create", "update"} =>
        \A f \in {"Title", "Author"} :
            (GivenValue(call, f).some /\ TrimmedGiven(f) # <<>>) =>
                ((KeyOf(f) \in ErrKeys(call.ret.err))
                    <=> Len(TrimmedGiven(f)) > CharLimit(f))

(***************************************************************************)
(* normalizeISBN under test: every string of up to MaxNormLen characters   *)
(* over digits, the characters it removes, letters in both cases, with and *)
(* without an upper case, and white space it keeps; the result is then     *)
(* normalized again.                                                       *)
(***************************************************************************)
MaxNormLen == 3

NormChars == {"9", "-", " ", "x", "X", EACUTE, SHARPS, TAB}

NormInputs == UNION {[1..n -> NormChars] : n \in 0..MaxNormLen}

NormCall(s) == [fn |-> "normalizeISBN", arg |-> s, res |-> normalizeISBN(s)]

Normalize ==
    /\ call = Idle
    /\ \E s \in NormInputs : call' = NormCall(s)
    /\ UNCHANGED <<Fields, addLog, prev>>
    /\ UNCHANGED world

NormalizeAgain ==
    /\ call # Idle
    /\ prev = Idle
    /\ prev' = call
    /\ call' = NormCall(call.res)
    /\ UNCHANGED <<Fields, addLog>>
    /\ UNCHANGED world

NormInit ==
    /\ Fields = NewValidationError
    /\ addLog = <<>>
    /\ call = Idle
    /\ prev = Idle
    /\ ServiceAtRest

NormNext == Normalize \/ NormalizeAgain

SpecNorm == NormInit /\ [][NormNext]_vars

\* the lower-case letters, and those of them that have an upper case
LowerCaseLetters == {LowerLetters[i] : i \in 1..26} \cup {EACUTE, SHARPS}
LowerWithUpper == {LowerLetters[i] : i \in 1..26} \cup {EACUTE}

\* s holds none of the characters of S
Without(s, S) == \A i \in 1..Len(s) : s[i] \notin S

\* C22 as stated: normalizeISBN(s) contains no space, no hyphen and no
\* lower-case letter, and normalizing it again returns it unchanged.
C22_NoLowerCaseLeft ==
    call.fn = "normalizeISBN" =>
        /\ Without(call.res, {" ", "-"} \cup LowerCaseLetters)
        /\ prev # Idle => call.res = prev.res

\* C22: normalizeISBN(s) contains no space, no hyphen and no lower-case
\* letter that has an upper case, and normalizing it again returns it
\* unchanged.
C22_NormalizeISBN ==
    call.fn = "normalizeISBN" =>
        /\ Without(call.res, {" ", "-"} \cup LowerWithUpper)
        /\ prev # Idle => call.res = prev.res

\* a string with a space, a hyphen and a lower-case x is normalized twice
C22_Witness ==
    /\ prev # Idle
    /\ prev.fn = "normalizeISBN"
    /\ prev.arg = <<" ", "-", "x">>
    /\ prev.res = <<"X">>
    /\ call.res = <<"X">>

(***************************************************************************)
(* The book service over its repository.  A request is one call of         *)
(* CreateBook or UpdateBook; it runs in steps, one per repository call     *)
(* with the code before it, so that two requests interleave where the code *)
(* lets them.  A pointer to a domain.Book is <<>> (nil) or <<b>>.  Every    *)
(* repository call either succeeds or fails with the database's error.     *)
(***************************************************************************)
ReqIds == {"r1", "r2"}

\* the ids a request may name: 1 is stored at the start, 2 is not
BookIds == {1, 2}

\* time.Now() is read up to this value
MaxNow == 2

\* errors a service call returns
ErrNil == [kind |-> "nil"]
ErrNotFound == [kind |-> "book not found"]
ErrDB == [kind |-> "db"]
ErrValidation(ve) == [kind |-> "validation", ve |-> ve]

\* the row the table holds at the start
SeedBook ==
    [ID |-> 1, Title |-> <<"a">>, Author |-> <<"a">>,
     ISBN |-> <<"0", "3", "0", "6", "4", "0", "6", "1", "5", "2">>,
     Price |-> LitValue(Lit(FALSE, 3350, 2)), PublicationYear |-> 2008,
     CreatedAt |-> 0, UpdatedAt |-> 0]

ServiceCreateInputs ==
    {[Title |-> <<" ", "b", " ">>, Author |-> <<"a", " ", "a">>,
      ISBN |-> <<"0", "8", "0", "4", "4", "2", "9", "5", "7", "x">>,
      PublicationYear |-> 2008, Price |-> LitValue(Lit(FALSE, 1234, 2))],
     [Title |-> <<" ">>, Author |-> <<"a", " ", "a">>,
      ISBN |-> <<"0", "8", "0", "4", "4", "2", "9", "5", "7", "x">>,
      PublicationYear |-> 2008, Price |-> LitValue(Lit(FALSE, 1234, 2))]}

ServicePatches ==
    [Title : Opt({<<" ", "b", " ">>, <<" ">>}, <<>>),
     Author : Opt({}, <<>>),
     ISBN : Opt({<<"0", "8", "0", "4", "4", "2", "9", "5", "7", "x">>}, <<>>),
     PublicationYear : Opt({}, 0),
     Price : Opt({LitValue(Lit(FALSE, 1234, 2))}, NaN)]

\* a request not yet made
NotStarted == [pc |-> "idle"]

\* a request that returned (book, err)
Returned2(q, book, err) ==
    [q EXCEPT !.pc = "done", !.ret = [book |-> book, err |-> err]]

\* a call of the repository as the history records it
RepoCall(r, fn, arg, res) ==
    [req |-> r, fn |-> fn, arg |-> arg, res |-> res, at |-> now]

\* the id the table gives the next inserted row (AUTO_INCREMENT)
NextId(table) ==
    IF DOMAIN table = {} THEN 1
    ELSE 1 + (CHOOSE i \in DOMAIN table : \A j \in DOMAIN table : j <= i)

\* bookRepository.GetByID: nil for no row, a copy of the row otherwise
GetByID(table, id) == IF id \in DOMAIN table THEN <<table[id]>> ELSE <<>>

\* bookRepository.Create: the table with the row inserted under a new id
Inserted(table, b) ==
    [i \in DOMAIN table \cup {NextId(table)} |->
        IF i = NextId(table) THEN [b EXCEPT !.ID = NextId(table)]
        ELSE table[i]]

\* bookRepository.Update: the row whose id is b.ID, if there is one, gets
\* every column of b but id and created_at
Updated(table, b) ==
    [i \in DOMAIN table |->
        IF i = b.ID THEN [b EXCEPT !.CreatedAt = table[i].CreatedAt]
        ELSE table[i]]

\* Seeded fault: UpdatedAt is read from the clock a second time, later.
NewBookLaterUpdate(in, t) ==
    [ID |-> 0, Title |-> in.Title, Author |-> in.Author, ISBN |-> in.ISBN,
     Price |-> in.Price, PublicationYear |-> in.PublicationYear,
     CreatedAt |-> t, UpdatedAt |-> t + 1]

\* CreateBook: the book built from the normalized input at time t
NewBook(in, t) ==
    [ID |-> 0, Title |-> in.Title, Author |-> in.Author, ISBN |-> in.ISBN,
     Price |-> in.Price, PublicationYear |-> in.PublicationYear,
     CreatedAt |-> t, UpdatedAt |-> t]

\* Seeded fault: the book is built and inserted whatever the validation said.
CreateValidatedIgnoresError(in, v) ==
    [pc |-> "insert", op |-> "CreateBook", id |-> 0, in |-> in,
     began |-> now, book |-> <<NewBook(v.out, now)>>,
     ret |-> [book |-> <<>>, err |-> ErrNil]]

\* CreateBook after validateAndNormalizeCreate returned v
CreateValidated(in, v) ==
    IF ~v.err.isNil
    THEN [pc |-> "done", op |-> "CreateBook", id |-> 0, in |-> in,
          began |-> now, book |-> <<>>,
          ret |-> [book |-> <<>>, err |-> ErrValidation(v.err)]]
    ELSE [pc |-> "insert", op |-> "CreateBook", id |-> 0, in |-> in,
          began |-> now, book |-> <<NewBook(v.out, now)>>,
          ret |-> [book |-> <<>>, err |-> ErrNil]]

\* CreateBook up to the call of repo.Create
CreateBookValidate(r) ==
    /\ reqs[r] = NotStarted
    /\ \E in \in ServiceCreateInputs :
          reqs' = [reqs EXCEPT
                     ![r] = CreateValidated(in, validateAndNormalizeCreate(in))]
    /\ UNCHANGED <<Fields, addLog, call, prev, books, repoLog, now>>

\* CreateBook: repo.Create and the return
CreateBookInsert(r) ==
    /\ reqs[r].pc = "insert"
    /\ \/ /\ books' = Inserted(books, reqs[r].book[1])
          /\ repoLog' = Append(repoLog,
                 RepoCall(r, "Create", reqs[r].book[1],
                          [id |-> NextId(books), err |-> ErrNil]))
          /\ reqs' = [reqs EXCEPT ![r] =
                 Returned2(@, <<[@.book[1] EXCEPT !.ID = NextId(books)]>>,
                           ErrNil)]
       \/ /\ books' = books
          /\ repoLog' = Append(repoLog,
                 RepoCall(r, "Create", reqs[r].book[1],
                          [id |-> 0, err |-> ErrDB]))
          /\ reqs' = [reqs EXCEPT ![r] = Returned2(@, <<>>, ErrDB)]
    /\ UNCHANGED <<Fields, addLog, call, prev, now>>

\* a request for UpdateBook(id, patch) as it begins
UpdateRequest(id, p) ==
    [pc |-> "get", op |-> "UpdateBook", id |-> id, in |-> PatchStruct(p),
     given |-> PatchMem(p), mem |-> PatchMem(p), began |-> now,
     book |-> <<>>, fetched |-> <<>>, ret |-> [book |-> <<>>, err |-> ErrNil]]

\* Seeded fault: the patch is validated before the existence check.
UpdateGotValidatesFirst(q, found) ==
    IF ~validateAndNormalizeUpdate(q.in, q.mem).err.isNil
    THEN Returned2(q, <<>>,
             ErrValidation(validateAndNormalizeUpdate(q.in, q.mem).err))
    ELSE IF found = <<>> THEN Returned2(q, <<>>, ErrNotFound)
    ELSE [q EXCEPT !.pc = "validate", !.book = found, !.fetched = found]

\* UpdateBook: repo.GetByID and the existence check
UpdateGot(q, found) ==
    IF found = <<>> THEN Returned2(q, <<>>, ErrNotFound)
    ELSE [q EXCEPT !.pc = "validate", !.book = found, !.fetched = found]

UpdateBookGet(r) ==
    /\ reqs[r] = NotStarted
    /\ \E id \in BookIds, p \in ServicePatches :
          \/ /\ reqs' = [reqs EXCEPT ![r] =
                   UpdateGot(UpdateRequest(id, p), GetByID(books, id))]
             /\ repoLog' = Append(repoLog,
                   RepoCall(r, "GetByID", id,
                            [book |-> GetByID(books, id), err |-> ErrNil]))
          \/ /\ reqs' = [reqs EXCEPT ![r] =
                   Returned2(UpdateRequest(id, p), <<>>, ErrDB)]
             /\ repoLog' = Append(repoLog,
                   RepoCall(r, "GetByID", id, [book |-> <<>>, err |-> ErrDB]))
    /\ UNCHANGED <<Fields, addLog, call, prev, books, now>>

\* Seeded fault: a field absent from the patch is written with its zero value.
mergePatchZeroesAbsent(existing, out, mem, t) ==
    [existing EXCEPT
        !.Title = IF out.Title # NIL THEN mem[out.Title] ELSE <<>>,
        !.Author = IF out.Author # NIL THEN mem[out.Author] ELSE <<>>,
        !.ISBN = IF out.ISBN # NIL THEN mem[out.ISBN] ELSE <<>>,
        !.PublicationYear =
            IF out.PublicationYear # NIL THEN mem[out.PublicationYear] ELSE 0,
        !.Price = IF out.Price # NIL THEN mem[out.Price] ELSE Zero(FALSE),
        !.UpdatedAt = t]

\* UpdateBook: the fields present in the normalized patch written into the
\* fetched book, and the time
mergePatch(existing, out, mem, t) ==
    [existing EXCEPT
        !.Title = IF out.Title # NIL THEN mem[out.Title] ELSE @,
        !.Author = IF out.Author # NIL THEN mem[out.Author] ELSE @,
        !.ISBN = IF out.ISBN # NIL THEN mem[out.ISBN] ELSE @,
        !.PublicationYear =
            IF out.PublicationYear # NIL THEN mem[out.PublicationYear] ELSE @,
        !.Price = IF out.Price # NIL THEN mem[out.Price] ELSE @,
        !.UpdatedAt = t]

\* UpdateBook after validateAndNormalizeUpdate returned v
UpdateValidated(q, v) ==
    IF ~v.err.isNil
    THEN Returned2([q EXCEPT !.mem = v.mem], <<>>, ErrValidation(v.err))
    ELSE [q EXCEPT !.pc = "write", !.mem = v.mem,
                   !.book = <<mergePatch(q.book[1], v.out, v.mem, now)>>]

\* UpdateBook from the validation up to the call of repo.Update
UpdateBookMerge(r) ==
    /\ reqs[r].pc = "validate"
    /\ reqs' = [reqs EXCEPT ![r] =
          UpdateValidated(@, validateAndNormalizeUpdate(@.in, @.mem))]
    /\ UNCHANGED <<Fields, addLog, call, prev, books, repoLog, now>>

\* UpdateBook: repo.Update and the return
UpdateBookWrite(r) ==
    /\ reqs[r].pc = "write"
    /\ \/ /\ books' = Updated(books, reqs[r].book[1])
          /\ repoLog' = Append(repoLog,
                 RepoCall(r, "Update", reqs[r].book[1], [err |-> ErrNil]))
          /\ reqs' = [reqs EXCEPT ![r] = Returned2(@, @.book, ErrNil)]
       \/ /\ books' = books
          /\ repoLog' = Append(repoLog,
                 RepoCall(r, "Update", reqs[r].book[1], [err |-> ErrDB]))
          /\ reqs' = [reqs EXCEPT ![r] = Returned2(@, <<>>, ErrDB)]
    /\ UNCHANGED <<Fields, addLog, call, prev, now>>

\* time passes
Tick ==
    /\ now < MaxNow
    /\ now' = now + 1
    /\ UNCHANGED <<Fields, addLog, call, prev, books, repoLog, reqs>>

\* the table at the start
SeedTable == [i \in {1} |-> SeedBook]

ServiceInit ==
    /\ Fields = NewValidationError
    /\ addLog = <<>>
    /\ call = Idle
    /\ prev = Idle
    /\ books = SeedTable
    /\ repoLog = <<>>
    /\ reqs = [r \in ReqIds |-> NotStarted]
    /\ now = 1

ServiceNext ==
    \/ \E r \in ReqIds : CreateBookValidate(r)
    \/ \E r \in ReqIds : CreateBookInsert(r)
    \/ \E r \in ReqIds : UpdateBookGet(r)
    \/ \E r \in ReqIds : UpdateBookMerge(r)
    \/ \E r \in ReqIds : UpdateBookWrite(r)
    \/ Tick

SpecService == ServiceInit /\ [][ServiceNext]_vars

(***************************************************************************)
(* Claims about the book service.                                          *)
(***************************************************************************)
\* the calls of repository function fn that request r made
CallsOf(r, fn) ==
    {i \in 1..Len(repoLog) : repoLog[i].req = r /\ repoLog[i].fn = fn}

\* the normalized form of the value v given for field f
Normalized(f, v) ==
    CASE f = "Title" -> TrimSpace(v)
      [] f = "Author" -> TrimSpace(v)
      [] f = "ISBN" -> normalizeISBN(TrimSpace(v))
      [] OTHER -> v

\* the book request r passed to repo.Update is the fetched one with the
\* present fields of the patch written into it
MergedOnly(q, b) ==
    /\ \A f \in StructFields :
          b[f] = IF q.in[f] # NIL THEN Normalized(f, q.given[q.in[f]])
                 ELSE q.fetched[1][f]
    /\ b.ID = q.id
    /\ b.ID = q.fetched[1].ID
    /\ b.CreatedAt = q.fetched[1].CreatedAt

\* C23: UpdateBook merges only the fields present in the patch: the record
\* it passes to the repository has each present field set to its normalized
\* patch value, every absent field equal to the value fetched for that id,
\* ID and CreatedAt unchanged, and UpdatedAt set to a time within the call.
C23_MergesOnlyPresentFields ==
    \A r \in DOMAIN reqs :
        \A i \in CallsOf(r, "Update") :
            /\ MergedOnly(reqs[r], repoLog[i].arg)
            /\ reqs[r].began <= repoLog[i].arg.UpdatedAt
            /\ repoLog[i].arg.UpdatedAt <= repoLog[i].at

\* a patch of title and ISBN, price absent, was merged and written after
\* the clock moved
C23_Witness ==
    /\ reqs # <<>>
    /\ reqs["r1"].pc = "done"
    /\ reqs["r1"].ret.err = ErrNil
    /\ CallsOf("r1", "Update") # {}
    /\ reqs["r1"].in.Title # NIL
    /\ reqs["r1"].in.ISBN # NIL
    /\ reqs["r1"].in.Price = NIL
    /\ reqs["r1"].ret.book[1].Title = <<"b">>
    /\ reqs["r1"].ret.book[1].Price = SeedBook.Price
    /\ reqs["r1"].ret.book[1].UpdatedAt = 2

\* request r asked for a book the repository does not hold: its GetByID
\* found no row
FoundNoBook(r) ==
    \E i \in CallsOf(r, "GetByID") :
        repoLog[i].res.err = ErrNil /\ repoLog[i].res.book = <<>>

\* C24: for an id for which the repository holds no book, UpdateBook returns
\* the error "book not found" for every patch, valid or invalid, never a
\* ValidationError, and never calls the repository's Update: the existence
\* check comes before validation.
C24_NotFoundBeforeValidation ==
    \A r \in DOMAIN reqs :
        (reqs[r].pc # "idle" /\ reqs[r].op = "UpdateBook" /\ FoundNoBook(r)) =>
            /\ reqs[r].pc = "done"
            /\ reqs[r].ret.err.kind = "book not found"
            /\ reqs[r].ret.book = <<>>
            /\ CallsOf(r, "Update") = {}
            /\ reqs[r].mem = reqs[r].given

\* an invalid patch (a blank title) for the id that is not stored
C24_Witness ==
    /\ reqs # <<>>
    /\ reqs["r1"].pc = "done"
    /\ reqs["r1"].op = "UpdateBook"
    /\ reqs["r1"].id = 2
    /\ reqs["r1"].in.Title # NIL
    /\ reqs["r1"].given[reqs["r1"].in.Title] = <<" ">>
    /\ FoundNoBook("r1")
    /\ reqs["r1"].ret.err = ErrNotFound

\* what validation says of the input request r was made with
InputError(r) ==
    IF reqs[r].op = "CreateBook"
    THEN validateAndNormalizeCreate(reqs[r].in).err
    ELSE validateAndNormalizeUpdate(reqs[r].in, reqs[r].given).err

\* the calls request r made that write: Create and Update
WritesOf(r) == CallsOf(r, "Create") \cup CallsOf(r, "Update")

\* validation is reached by r: always in CreateBook, in UpdateBook once the
\* book was fetched
ReachedValidation(r) ==
    \/ reqs[r].op = "CreateBook"
    \/ reqs[r].op = "UpdateBook" /\ reqs[r].fetched # <<>>
                                 /\ reqs[r].pc # "validate"

\* the table after the writes of a history that succeeded, in order
RECURSIVE Replay(_, _)
Replay(table, log) ==
    IF log = <<>> THEN table
    ELSE IF Head(log).res.err # ErrNil THEN Replay(table, Tail(log))
    ELSE IF Head(log).fn = "Create"
         THEN Replay(Inserted(table, Head(log).arg), Tail(log))
    ELSE IF Head(log).fn = "Update"
         THEN Replay(Updated(table, Head(log).arg), Tail(log))
    ELSE Replay(table, Tail(log))

NormalizedInput(in, b) ==
    \A f \in StructFields : b[f] = Normalized(f, in[f])

\* C26: a CreateBook call with valid input calls the repository's Create
\* exactly once, with a book carrying the normalized fields and CreatedAt equal
\* to UpdatedAt; it returns that book with the id the repository assigned, and
\* if Create fails it returns that error and no book.
C26_CreateOnce ==
    \A r \in DOMAIN reqs :
        (reqs[r].pc = "done" /\ reqs[r].op = "CreateBook"
                             /\ InputError(r).isNil) =>
            /\ Cardinality(CallsOf(r, "Create")) = 1
            /\ \A i \in CallsOf(r, "Create") :
                  /\ NormalizedInput(reqs[r].in, repoLog[i].arg)
                  /\ repoLog[i].arg.CreatedAt = repoLog[i].arg.UpdatedAt
                  /\ repoLog[i].arg.CreatedAt \in reqs[r].began..repoLog[i].at
                  /\ IF repoLog[i].res.err = ErrNil
                     THEN /\ reqs[r].ret.err = ErrNil
                          /\ reqs[r].ret.book =
                                <<[repoLog[i].arg EXCEPT
                                      !.ID = repoLog[i].res.id]>>
                     ELSE /\ reqs[r].ret.err = repoLog[i].res.err
                          /\ reqs[r].ret.book = <<>>

\* a valid create that was stored under id 2 and returned, and one that the
\* repository refused
C26_Witness ==
    /\ reqs # <<>>
    /\ reqs["r1"].pc = "done" /\ reqs["r1"].op = "CreateBook"
    /\ reqs["r1"].ret.err = ErrNil
    /\ reqs["r1"].ret.book # <<>>
    /\ reqs["r1"].ret.book[1].ID = 2
    /\ reqs["r1"].ret.book[1].Title = <<"b">>
    /\ 2 \in DOMAIN books
    /\ books[2] = reqs["r1"].ret.book[1]
    /\ reqs["r2"].pc = "done" /\ reqs["r2"].op = "CreateBook"
    /\ reqs["r2"].ret.err = ErrDB

(***************************************************************************)
(* Further claims about the URL engine.                                    *)
(***************************************************************************)
\* C27: all is the composition of the two other operations: for every input
\* that passes the parse step, all returns what canonical returns for the
\* output of redirection.
C27_AllIsCanonicalOfRedirection ==
    Answered(OpAll) =>
        processURL(OpCanonical, processURL(OpRedirection, call.req.URL).out)
            = Succeed(call.resp.processed_url)

\* C29: the URL check comes before the operation check: when the URL fails
\* the parse step and the operation is none of canonical, redirection and
\* all, the one error returned is "invalid url".
C29_URLCheckedFirst ==
    (Decoded /\ ~Parseable
             /\ call.op \notin {OpCanonical, OpRedirection, OpAll}) =>
        /\ call.resp.status = 400
        /\ call.resp.error = "invalid url"
        /\ call.resp.error # "invalid operation (use: redirection|canonical|all)"

\* "not-a-url" under the operation "bogus"
C29_Witness ==
    /\ Decoded
    /\ call.req.URL = <<"n", "o", "t", "-", "a", "-", "u", "r", "l">>
    /\ call.req.Operation = <<"b", "o", "g", "u", "s">>
    /\ call.resp.status = 400
    /\ call.resp.error = "invalid url"

\* C30: redirection never adds a second "www.": redirection of the output of
\* a redirection succeeds and returns a URL with the same host.
C30_NoSecondWWW ==
    Repeated(OpRedirection) =>
        /\ call.resp.status = 200
        /\ Returned.Host = Parse(prev.resp.processed_url).u.Host

\* "example.com" became "www.example.com" and stayed so
C30_Witness ==
    /\ Repeated(OpRedirection)
    /\ HostName(Parse(prev.req.URL).u.Host)
          = <<"e", "x", "a", "m", "p", "l", "e", ".", "c", "o", "m">>
    /\ HostName(Returned.Host) = WWW \o HostName(Parse(prev.req.URL).u.Host)
    /\ call.resp.status = 200

(***************************************************************************)
(* Two updates of one book at the same time.                               *)
(***************************************************************************)
\* the fields request r's patch holds
PresentIn(r) == {f \in StructFields : reqs[r].in[f] # NIL}

\* request r is an UpdateBook of book id that returned without error
UpdatedOK(r, id) ==
    /\ reqs[r].pc = "done"
    /\ reqs[r].op = "UpdateBook"
    /\ reqs[r].id = id
    /\ reqs[r].ret.err = ErrNil

\* C28: no update is lost: when two UpdateBook calls on the same book with
\* valid patches that have no field in common both succeed, the stored record
\* holds the values of both patches, and the fields absent from both keep the
\* value stored before.
C28_NoLostUpdate ==
    \A id \in DOMAIN books :
        (/\ reqs # <<>>
         /\ UpdatedOK("r1", id) /\ UpdatedOK("r2", id)
         /\ PresentIn("r1") \cap PresentIn("r2") = {}) =>
            \A f \in StructFields :
                books[id][f] =
                    IF f \in PresentIn("r1")
                    THEN Normalized(f, reqs["r1"].given[reqs["r1"].in[f]])
                    ELSE IF f \in PresentIn("r2")
                    THEN Normalized(f, reqs["r2"].given[reqs["r2"].in[f]])
                    ELSE SeedTable[id][f]

====
